---- MODULE Spec2Model ----
(***************************************************************************)
(* Rylan's Animal Story Studio: the content-safety filter, the prompt      *)
(* builder, the dream-animal and scene-maker screens that call them, and   *)
(* the image-generation gateway with its provider fallback.                *)
(*                                                                         *)
(* Text is a sequence of one-character strings, so that lower-casing,      *)
(* trimming, length and substring search are computed as the code does.    *)
(* An optional value (a TypeScript `x?: T`) is the empty sequence when it  *)
(* is undefined and a one-element sequence when it is set.                 *)
(***************************************************************************)
EXTENDS Integers, Sequences, FiniteSets, TLC

\* ------------------------------------------------------------------------
\* Bounds of the model
\* ------------------------------------------------------------------------
\* Number of fragments concatenated into one input text of the filter.
MaxFrags == 2

\* Number of characters in one list given to the prompt builder.
MaxPromptAnimals == 3

\* Number of images one successful generation returns (the gateway's own
\* limit is 4).
MaxImages == 2

\* Number of speech transcripts delivered to one screen.
MaxTranscripts == 1

\* Number of characters in the stable when the scene maker is opened.
MaxAnimals == 2

\* Largest count a gateway request asks for (above the gateway's limit of 4).
MaxRequestCount == 5

\* Number of reference images in a gateway request.
MaxRefs == 2

\* the most words an upstream error text is made of
MaxErrorWords == 2

\* the most records of one kind in the store, and the latest creation time
MaxStored == 2

MaxTime == 2

\* ------------------------------------------------------------------------
\* Optional values and text primitives (JavaScript string semantics)
\* ------------------------------------------------------------------------
None == <<>>

Some(x) == <<x>>

IsSome(o) == Len(o) > 0

\* String.prototype.toLowerCase, restricted to the ASCII letters
LowerOf ==
  [c \in {"A","B","C","D","E","F","G","H","I","J","K","L","M",
          "N","O","P","Q","R","S","T","U","V","W","X","Y","Z"} |->
     CASE c = "A" -> "a" [] c = "B" -> "b" [] c = "C" -> "c" [] c = "D" -> "d"
       [] c = "E" -> "e" [] c = "F" -> "f" [] c = "G" -> "g" [] c = "H" -> "h"
       [] c = "I" -> "i" [] c = "J" -> "j" [] c = "K" -> "k" [] c = "L" -> "l"
       [] c = "M" -> "m" [] c = "N" -> "n" [] c = "O" -> "o" [] c = "P" -> "p"
       [] c = "Q" -> "q" [] c = "R" -> "r" [] c = "S" -> "s" [] c = "T" -> "t"
       [] c = "U" -> "u" [] c = "V" -> "v" [] c = "W" -> "w" [] c = "X" -> "x"
       [] c = "Y" -> "y" [] c = "Z" -> "z"]

\* mutant: the text is compared without being lower-cased
toLowerCase_Identity(text) == text

toLowerCase(text) ==
  [i \in 1..Len(text) |->
     IF text[i] \in DOMAIN LowerOf THEN LowerOf[text[i]] ELSE text[i]]

\* String.prototype.includes: needle occurs in hay as a contiguous substring
includes(hay, needle) ==
  \E i \in 0..(Len(hay) - Len(needle)) :
     SubSeq(hay, i + 1, i + Len(needle)) = needle

IsWhitespace(c) == c \in {" ", "\t", "\n"}

\* String.prototype.trim: drop the leading and the trailing whitespace
trim(text) ==
  LET keep == {i \in 1..Len(text) : ~IsWhitespace(text[i])}
  IN  IF keep = {} THEN <<>>
      ELSE LET lo == CHOOSE i \in keep : \A j \in keep : i <= j
               hi == CHOOSE i \in keep : \A j \in keep : j <= i
           IN  SubSeq(text, lo, hi)

\* ------------------------------------------------------------------------
\* Content Safety Filter (contentFilter.ts)
\* ------------------------------------------------------------------------
BLOCKED_TERMS ==
  <<
     <<"k","i","l","l">>, <<"k","i","l","l","i","n","g">>, <<"d","e","a","d">>, <<"d","e","a","t","h">>, <<"d","i","e">>, <<"d","y","i","n","g">>, <<"m","u","r","d","e","r">>, <<"b","l","o","o","d">>, <<"b","l","o","o","d","y">>,
     <<"w","e","a","p","o","n">>, <<"g","u","n">>, <<"k","n","i","f","e">>, <<"s","w","o","r","d">>, <<"f","i","g","h","t">>, <<"f","i","g","h","t","i","n","g">>, <<"w","a","r">>, <<"b","a","t","t","l","e">>,
     <<"h","u","r","t">>, <<"a","t","t","a","c","k">>, <<"a","t","t","a","c","k","i","n","g">>, <<"d","e","s","t","r","o","y">>, <<"e","x","p","l","o","s","i","o","n">>, <<"b","o","m","b">>,
     <<"s","c","a","r","y">>, <<"h","o","r","r","o","r">>, <<"m","o","n","s","t","e","r">>, <<"d","e","m","o","n">>, <<"d","e","v","i","l">>, <<"e","v","i","l">>, <<"n","i","g","h","t","m","a","r","e">>, <<"h","a","u","n","t","e","d">>,
     <<"g","h","o","s","t">>, <<"z","o","m","b","i","e">>, <<"v","a","m","p","i","r","e">>, <<"s","k","e","l","e","t","o","n">>, <<"c","r","e","e","p","y">>, <<"t","e","r","r","i","f","y","i","n","g">>, <<"f","r","i","g","h","t","e","n","i","n","g">>,
     <<"n","a","k","e","d">>, <<"n","u","d","e">>, <<"s","e","x","y">>, <<"k","i","s","s">>, <<"k","i","s","s","i","n","g">>, <<"r","o","m","a","n","t","i","c">>, <<"l","o","v","e">>, <<"d","a","t","i","n","g">>,
     <<"b","o","y","f","r","i","e","n","d">>, <<"g","i","r","l","f","r","i","e","n","d">>, <<"m","a","r","r","i","e","d">>, <<"w","e","d","d","i","n","g">>,
     <<"h","a","t","e">>, <<"h","a","t","i","n","g">>, <<"a","n","g","r","y">>, <<"f","u","r","i","o","u","s">>, <<"r","a","g","e">>, <<"c","r","y","i","n","g">>, <<"s","a","d">>, <<"d","e","p","r","e","s","s","e","d">>,
     <<"a","l","c","o","h","o","l">>, <<"b","e","e","r">>, <<"w","i","n","e">>, <<"d","r","u","n","k">>, <<"s","m","o","k","e">>, <<"s","m","o","k","i","n","g">>, <<"d","r","u","g","s">>
  >>

GENTLE_ALTERNATIVES ==
  (<<"s","c","a","r","y">> :> <<"e","x","c","i","t","i","n","g">>) @@
  (<<"f","i","g","h","t">> :> <<"p","l","a","y">>) @@
  (<<"f","i","g","h","t","i","n","g">> :> <<"p","l","a","y","i","n","g">>) @@
  (<<"a","n","g","r","y">> :> <<"g","r","u","m","p","y">>) @@
  (<<"s","a","d">> :> <<"a"," ","l","i","t","t","l","e"," ","b","l","u","e">>) @@
  (<<"c","r","y","i","n","g">> :>
     <<"f","e","e","l","i","n","g"," ","e","m","o","t","i","o","n","a","l">>) @@
  (<<"h","u","r","t">> :> <<"b","u","m","p","e","d">>)

mildlyNegative ==
  << <<"l","o","s","t">>, <<"a","l","o","n","e">>, <<"d","a","r","k">>,
     <<"s","t","o","r","m">>, <<"t","h","u","n","d","e","r">> >>

\* The literal messages; a template literal is its text with the
\* interpolated values as arguments.
Message(template, args) == [template |-> template, args |-> args]

MsgAlternative(term, alt) ==
  Message("Oops! Let's use friendlier words. Instead of \"$1\", how about \"$2\"?",
          <<term, alt>>)

MsgGenericRedirect ==
  Message("Hmm, let's keep our stories happy and friendly! Try describing something nice that could happen instead.",
          <<>>)

MsgReassure ==
  Message("That sounds like an adventure! Remember, everything turns out okay in the end!",
          <<>>)

MsgNameEmpty ==
  Message("Every animal needs a name! What would you like to call them?", <<>>)

MsgNameTooLong ==
  Message("That's a very long name! Can you make it a bit shorter?", <<>>)

MsgDescEmpty ==
  Message("Tell us what's happening in your scene! What are your animals doing?", <<>>)

MsgDescTooLong ==
  Message("Wow, that's a lot of story! Try to describe the main thing happening in a shorter way.",
          <<>>)

ContentCheckResult(isAllowed, friendlyMessage, cleanedText) ==
  [isAllowed |-> isAllowed, friendlyMessage |-> friendlyMessage,
   cleanedText |-> cleanedText]

\* mutant: the list is scanned from its end
FirstIncluded_Last(list, text) ==
  LET hits == {i \in 1..Len(list) : includes(text, list[i])}
  IN  IF hits = {} THEN 0 ELSE CHOOSE i \in hits : \A j \in hits : j <= i

\* Index of the first element of list (in list order) that text includes; 0 if none
FirstIncluded(list, text) ==
  LET hits == {i \in 1..Len(list) : includes(text, list[i])}
  IN  IF hits = {} THEN 0 ELSE CHOOSE i \in hits : \A j \in hits : i <= j

\* mutant: the lower-cased text is returned as cleanedText
checkContent_CleansLower(text, extraGentleMode) ==
  LET lowerText == toLowerCase(text)
      b == FirstIncluded(BLOCKED_TERMS, lowerText)
  IN  IF b # 0
      THEN LET term == BLOCKED_TERMS[b]
           IN  IF extraGentleMode /\ term \in DOMAIN GENTLE_ALTERNATIVES
               THEN ContentCheckResult(FALSE,
                      Some(MsgAlternative(term, GENTLE_ALTERNATIVES[term])), None)
               ELSE ContentCheckResult(FALSE, Some(MsgGenericRedirect), None)
      ELSE IF extraGentleMode /\ FirstIncluded(mildlyNegative, lowerText) # 0
           THEN ContentCheckResult(TRUE, Some(MsgReassure), Some(lowerText))
           ELSE ContentCheckResult(TRUE, None, Some(lowerText))

checkContent(text, extraGentleMode) ==
  LET lowerText == toLowerCase(text)
      b == FirstIncluded(BLOCKED_TERMS, lowerText)
  IN  IF b # 0
      THEN LET term == BLOCKED_TERMS[b]
           IN  IF extraGentleMode /\ term \in DOMAIN GENTLE_ALTERNATIVES
               THEN ContentCheckResult(FALSE,
                      Some(MsgAlternative(term, GENTLE_ALTERNATIVES[term])), None)
               ELSE ContentCheckResult(FALSE, Some(MsgGenericRedirect), None)
      ELSE IF extraGentleMode /\ FirstIncluded(mildlyNegative, lowerText) # 0
           THEN ContentCheckResult(TRUE, Some(MsgReassure), Some(text))
           ELSE ContentCheckResult(TRUE, None, Some(text))

MaxNameLen == 30

MaxDescLen == 500

\* mutant: a name of exactly the maximum length is rejected
validateAnimalName_OffByOne(name) ==
  IF Len(name) = 0 \/ Len(trim(name)) = 0
  THEN ContentCheckResult(FALSE, Some(MsgNameEmpty), None)
  ELSE IF Len(name) >= MaxNameLen
       THEN ContentCheckResult(FALSE, Some(MsgNameTooLong), None)
       ELSE checkContent(name, FALSE)

validateAnimalName(name) ==
  IF Len(name) = 0 \/ Len(trim(name)) = 0
  THEN ContentCheckResult(FALSE, Some(MsgNameEmpty), None)
  ELSE IF Len(name) > MaxNameLen
       THEN ContentCheckResult(FALSE, Some(MsgNameTooLong), None)
       ELSE checkContent(name, FALSE)

validateSceneDescription(description) ==
  IF Len(description) = 0 \/ Len(trim(description)) = 0
  THEN ContentCheckResult(FALSE, Some(MsgDescEmpty), None)
  ELSE IF Len(description) > MaxDescLen
       THEN ContentCheckResult(FALSE, Some(MsgDescTooLong), None)
       ELSE checkContent(description, FALSE)

\* ------------------------------------------------------------------------
\* Characters (types/index.ts) and the Prompt Builder (imageGeneration.ts)
\* ------------------------------------------------------------------------
\* JavaScript truthiness of an optional string: set and not the empty string
Truthy(o) == IsSome(o) /\ o[1] # ""

\* the same for an optional free text (a sequence of characters)
TruthyText(o) == IsSome(o) /\ Len(o[1]) > 0

\* a || b on optional strings
OrElse(a, b) == IF Truthy(a) THEN a ELSE b

Animal(id, mode, name, species, personality, primary, secondary, markings, specialThing, stickerDataUrl, portraitDataUrl) ==
  [id |-> id, mode |-> mode, name |-> name, species |-> species,
   personality |-> personality,
   colors |-> [primary |-> primary, secondary |-> secondary, markings |-> markings],
   specialThing |-> specialThing,
   stickerDataUrl |-> stickerDataUrl, portraitDataUrl |-> portraitDataUrl]

\* species.toLowerCase() and personality.toLowerCase() on the closed enumerations
LowerTag ==
  [t \in {"Horse", "Cow", "Pig", "Sheep", "Chicken", "Cat", "Dog", "Goat",
          "Bunny", "Duck", "Other", "Brave", "Kind", "Silly", "Curious",
          "Calm", "Adventurous", "Gentle", "Playful"} |->
     CASE t = "Horse" -> "horse" [] t = "Cow" -> "cow" [] t = "Pig" -> "pig"
       [] t = "Sheep" -> "sheep" [] t = "Chicken" -> "chicken"
       [] t = "Cat" -> "cat" [] t = "Dog" -> "dog" [] t = "Goat" -> "goat"
       [] t = "Bunny" -> "bunny" [] t = "Duck" -> "duck" [] t = "Other" -> "other"
       [] t = "Brave" -> "brave" [] t = "Kind" -> "kind" [] t = "Silly" -> "silly"
       [] t = "Curious" -> "curious" [] t = "Calm" -> "calm"
       [] t = "Adventurous" -> "adventurous" [] t = "Gentle" -> "gentle"
       [] t = "Playful" -> "playful"]

ART_STYLE == "cozy children's storybook watercolor illustration, ..."

buildKidSafePromptSuffix == "IMPORTANT STYLE REQUIREMENTS: ..."

LOCATION_DESCRIPTIONS ==
  [l \in {"Stable", "Barn", "Pasture", "Meadow", "Forest Trail", "Riding Arena",
          "Winter Field", "River", "Mountain Path", "Cozy Farm"} |->
     CASE l = "Stable" -> "a cozy wooden stable with hay bales, ..."
       [] l = "Barn" -> "a charming red barn with open doors, ..."
       [] l = "Pasture" -> "a lush green pasture with wildflowers, ..."
       [] l = "Meadow" -> "a beautiful wildflower meadow with butterflies, ..."
       [] l = "Forest Trail" -> "a magical forest trail with dappled sunlight, ..."
       [] l = "Riding Arena" -> "a well-kept riding arena with white fences, ..."
       [] l = "Winter Field" -> "a peaceful snowy field with gentle snowflakes, ..."
       [] l = "River" -> "a gentle babbling brook with smooth stones, ..."
       [] l = "Mountain Path" -> "a scenic mountain trail with wildflowers, ..."
       [] l = "Cozy Farm" -> "a charming farmyard with a cottage, ..."]

\* One piece of a character descriptor. Enumerated tags and colours are in
\* lit, user-entered free text is in text, the reference-image number in n.
Part(kind, lit, text, n) == [kind |-> kind, lit |-> lit, text |-> text, n |-> n]

\* parts.join(''): the empty strings of the parts array contribute nothing
JoinParts(parts) == SelectSeq(parts, LAMBDA q : q.kind # "empty")

EmptyPart == Part("empty", "", <<>>, 0)

\* mutant: only the generated portrait counts as a reference image
hasImage_PortraitOnly(animal) == Truthy(animal.portraitDataUrl)

hasImage(animal) ==
  Truthy(OrElse(animal.portraitDataUrl, animal.stickerDataUrl))

\* the descriptor of animals[index + 1] (index is the 0-based map index)
animalDescription(animal, index) ==
  JoinParts(<<
    Part("name", LowerTag[animal.species], animal.name, 0),
    IF hasImage(animal) THEN Part("reference", "", <<>>, index + 1) ELSE EmptyPart,
    IF ~hasImage(animal) THEN Part("primary", animal.colors.primary, <<>>, 0)
                         ELSE EmptyPart,
    IF ~hasImage(animal) /\ animal.colors.secondary # ""
      THEN Part("secondary", animal.colors.secondary, <<>>, 0) ELSE EmptyPart,
    IF ~hasImage(animal) /\ TruthyText(animal.colors.markings)
      THEN Part("markings", "", animal.colors.markings[1], 0) ELSE EmptyPart,
    IF ~hasImage(animal) THEN Part("close", ")", <<>>, 0) ELSE EmptyPart,
    Part("personality", LowerTag[animal.personality], <<>>, 0),
    IF TruthyText(animal.specialThing)
      THEN Part("special", "", animal.specialThing[1], 0) ELSE EmptyPart
  >>)

\* The scene prompt: the template's fixed paragraphs and its interpolations.
\* characters holds the descriptors that the code joins with "; ".
buildScenePrompt(animals, location, userDescription) ==
  [kind |-> "scene",
   artStyle |-> ART_STYLE,
   setting |-> LOCATION_DESCRIPTIONS[location],
   characters |-> [i \in 1..Len(animals) |-> animalDescription(animals[i], i - 1)],
   description |-> userDescription,
   suffix |-> buildKidSafePromptSuffix]

\* The portrait prompt. colorDesc is the primary colour, with the secondary
\* when it is set; the markings and special-detail clauses are omitted
\* (None) when the field is absent or empty.
buildAnimalPortraitPrompt(animal) ==
  [kind |-> "portrait",
   artStyle |-> ART_STYLE,
   name |-> animal.name,
   personality |-> LowerTag[animal.personality],
   species |-> LowerTag[animal.species],
   colorDesc |-> IF animal.colors.secondary # ""
                 THEN <<animal.colors.primary, animal.colors.secondary>>
                 ELSE <<animal.colors.primary>>,
   markingsDesc |-> IF TruthyText(animal.colors.markings)
                    THEN animal.colors.markings ELSE None,
   specialDetail |-> IF TruthyText(animal.specialThing)
                     THEN animal.specialThing ELSE None,
   suffix |-> buildKidSafePromptSuffix]

\* animals.map(a => a.portraitDataUrl || a.stickerDataUrl).filter(img => !!img)
getAnimalImages(animals) ==
  LET imgs == [i \in 1..Len(animals) |->
                 OrElse(animals[i].portraitDataUrl, animals[i].stickerDataUrl)]
      kept == SelectSeq(imgs, Truthy)
  IN  [i \in 1..Len(kept) |-> kept[i][1]]

\* ------------------------------------------------------------------------
\* Generation Client as seen by the screens (imageGeneration.ts)
\* ------------------------------------------------------------------------
\* the arguments of one generateImages call (settings is unused by it)
Request(prompt, count, referenceImages) ==
  [prompt |-> prompt, count |-> count, referenceImages |-> referenceImages]

generateAnimalPortrait(animal) ==
  Request(buildAnimalPortraitPrompt(animal), 1, <<>>)

generateSceneImages(animals, location, description, settings) ==
  Request(buildScenePrompt(animals, location, description), settings.imageCount,
          getAnimalImages(animals))

\* two of the messages an ImageGenerationResult can carry in error (the
\* screens only display the message)
GenerationErrors ==
  { Message("No images were created. Let's try again!", <<>>),
    Message("Could not connect to the server. Check your internet!", <<>>) }

ImageGenerationResult(success, images, error) ==
  [success |-> success, images |-> images, error |-> error]

\* the images of a successful result, named by their position
Images(n) == [i \in 1..n |-> "data:image/png;base64," \o ToString(i)]

Min(a, b) == IF a < b THEN a ELSE b

\* the results generateImages can return for a request of count images
GenerationResults(count) ==
  {ImageGenerationResult(TRUE, Images(n), None) : n \in 1..Min(count, MaxImages)}
  \cup {ImageGenerationResult(FALSE, <<>>, Some(e)) : e \in GenerationErrors}

\* ------------------------------------------------------------------------
\* Settings (App.tsx) and the objects the screens build
\* ------------------------------------------------------------------------
DEFAULT_SETTINGS ==
  [openaiApiKey |-> None, imageModel |-> "dall-e-3", imageCount |-> 4,
   kidSafeMode |-> TRUE, extraGentleMode |-> FALSE]

\* what ParentMode.handleSaveSettings can store: the count buttons 1..4 and
\* the extra-gentle checkbox
SavedSettings ==
  {[DEFAULT_SETTINGS EXCEPT !.imageCount = c, !.extraGentleMode = g] :
     c \in {1, 2, 3, 4}, g \in BOOLEAN}

\* x || undefined for a free text
TextOrUndefined(t) == IF Len(t) > 0 THEN Some(t) ELSE None

\* the tempAnimal of DreamAnimal.handleGeneratePortrait
dreamTempAnimal(name, markings, specialThing) ==
  Animal("temp", "dream", name, "Horse", "Kind", "#8B4513", "#FFFFFF",
         TextOrUndefined(markings), TextOrUndefined(specialThing), None, None)

\* the animal of DreamAnimal.handleSave
dreamAnimalToSave(id, name, markings, specialThing, portrait) ==
  Animal(id, "dream", trim(name), "Horse", "Kind", "#8B4513", "#FFFFFF",
         TextOrUndefined(trim(markings)), TextOrUndefined(trim(specialThing)),
         None, IF Truthy(portrait) THEN portrait ELSE None)

\* the animal of ToyAnimal.handleSave
toyAnimalToSave(id, name, specialThing, stickerImage) ==
  Animal(id, "toy", trim(name), "Horse", "Kind", "#8B4513", "#FFFFFF",
         None, TextOrUndefined(trim(specialThing)), Some(stickerImage), None)

\* the scene of SceneMaker.handleSave; the title field is left empty, so
\* the title is the default built from the selected animals' names
sceneToSave(id, selectedAnimals, location, selectedAnimalIds, description, promptUsed, generatedImages, selectedImageIndex) ==
  [id |-> id,
   title |-> [i \in 1..Len(selectedAnimals) |-> selectedAnimals[i].name],
   location |-> location,
   animalIds |-> selectedAnimalIds,
   userDescription |-> description,
   promptUsed |-> promptUsed,
   imageDataUrls |-> generatedImages,
   chosenImageDataUrl |->
     IF selectedImageIndex + 1 \in 1..Len(generatedImages)
     THEN Some(generatedImages[selectedImageIndex + 1]) ELSE None]

\* ------------------------------------------------------------------------
\* Input texts of the filter
\* ------------------------------------------------------------------------
UpperOf ==
  [c \in {LowerOf[u] : u \in DOMAIN LowerOf} |->
     CHOOSE u \in DOMAIN LowerOf : LowerOf[u] = c]

UpperChar(c) == IF c \in DOMAIN UpperOf THEN UpperOf[c] ELSE c

Casings == {"lower", "upper", "alternating"}

ApplyCase(w, casing) ==
  [i \in 1..Len(w) |->
     IF casing = "upper" \/ (casing = "alternating" /\ i % 2 = 0)
     THEN UpperChar(w[i]) ELSE w[i]]

Fragments ==
  { <<"f","i","g","h","t">>, <<"i","n","g">>, <<"s","a","d">>,
    <<"d","e","a","d">>, <<"l","o","s","t">>, <<" ">>,
    <<"h","a","t">>, <<"e">> }

CasedFragments == {ApplyCase(w, c) : w \in Fragments, c \in Casings}

RECURSIVE FragTexts(_)
FragTexts(n) ==
  IF n = 0 THEN {<<>>}
  ELSE LET shorter == FragTexts(n - 1)
       IN  shorter \cup {t \o w : t \in shorter, w \in CasedFragments}

Affixes == {<<>>, <<"x">>, <<"\t">>}

\* every blocked term, in every casing, at the start, middle and end
TermTexts ==
  {pre \o ApplyCase(BLOCKED_TERMS[k], c) \o post :
     k \in 1..Len(BLOCKED_TERMS), c \in Casings, pre \in Affixes, post \in Affixes}

PadTo(base, ch, total) ==
  base \o [i \in 1..(total - Len(base)) |-> ch]

\* texts at and just over the two length limits
LongTexts ==
  {PadTo(base, ch, total) :
     base \in {<<>>, <<"p","o","n","y">>, <<"F","i","g","h","t">>},
     ch \in {"a", " "},
     total \in {MaxNameLen, MaxNameLen + 1, MaxDescLen, MaxDescLen + 1}}

FilterInputs == FragTexts(MaxFrags) \cup TermTexts \cup LongTexts

\* ------------------------------------------------------------------------
\* Input characters of the prompt builder
\* ------------------------------------------------------------------------
Star == <<"S","t","a","r">>

Spots == <<"s","p","o","t","s">>

\* no image, a portrait, a sticker, and an empty-string portrait
ImageVariants ==
  { [portrait |-> None, sticker |-> None],
    [portrait |-> Some("data:portrait"), sticker |-> None],
    [portrait |-> None, sticker |-> Some("data:sticker")],
    [portrait |-> Some(""), sticker |-> None] }

PromptAnimals ==
  { Animal("a", IF IsSome(v.sticker) THEN "toy" ELSE "dream", Star, "Horse", "Kind",
           "#8B4513", secondary, markings,
           IF secondary = "" THEN Some(<<"f","a","s","t">>) ELSE None,
           v.sticker, v.portrait) :
      v \in ImageVariants, secondary \in {"", "#FFFFFF"},
      markings \in {None, Some(Spots)} }

RECURSIVE AnimalLists(_)
AnimalLists(n) ==
  IF n = 0 THEN {<<>>}
  ELSE LET shorter == AnimalLists(n - 1)
       IN  shorter \cup {Append(l, a) : l \in shorter, a \in PromptAnimals}

\* ------------------------------------------------------------------------
\* State
\* ------------------------------------------------------------------------
VARIABLES
  \* a call of one function of the Content Safety Filter
  fOp,      \* the filter function that has been applied to fText ("none" before)
  fText,    \* the text given to the filter
  fGentle,  \* the extraGentleMode argument
  fResult,  \* the ContentCheckResult returned
  \* a call of one function of the Prompt Builder
  pOp,          \* the builder that has been applied ("none" before)
  pAnimals,     \* the characters given to the builder
  pLocation,    \* the location tag
  pDescription, \* the validated free-text description
  pPrompt,      \* the prompt returned
  \* props shared by the screens
  settings,     \* the Settings the App passes to the mounted screen
  transcripts,  \* number of speech recognitions started so far
  \* the DreamAnimal screen (React state of the mounted component)
  dMounted,       \* the component is mounted
  dName,          \* name
  dMarkings,      \* markings
  dSpecialThing,  \* specialThing
  dPortrait,      \* portrait (optional image)
  dIsGenerating,  \* isGenerating
  dError,         \* error (optional message)
  dIsSaving,      \* isSaving
  dRequest,       \* the generateImages call in flight, if any
  dSaved,         \* the animal handed to onSave, if any
  \* the SceneMaker screen
  sMounted,             \* the component is mounted
  sAnimals,             \* the animals prop
  sStep,                \* step
  sSelectedAnimalIds,   \* selectedAnimalIds
  sLocation,            \* location
  sDescription,         \* description
  sGeneratedImages,     \* generatedImages
  sPromptUsed,          \* promptUsed (optional: '' before the first success)
  sSelectedImageIndex,  \* selectedImageIndex (optional 0-based index)
  sError,               \* error (optional message)
  sIsGenerating,        \* isGenerating
  sRequest,             \* the generateImages call in flight, if any
  sSaved,               \* the scene handed to onSave, if any
  sListening,           \* a speech recognition started from the description
                        \* field can still deliver its result
  \* one request to the Generation Gateway (api/generate-image.ts)
  gwKeys,      \* process.env: which of OPENAI_API_KEY, GEMINI_API_KEY are set
  gwRequest,   \* the HTTP request: method and body
  gwPc,        \* where the handler is: "idle", the provider function it is
               \* in ("vision", "gemini", "dalle"), or "done"
  gwI,         \* the loop index i of the provider function
  gwImages,    \* the images array of the provider function
  gwAttempts,  \* the provider functions called so far, with their results
  gwCalls,     \* number of fetch calls made, per destination
  gwLastCall,  \* the payload of the latest provider fetch, if any
  gwAwait,     \* TRUE while the provider function is suspended at await fetch
  gwInFlight,  \* number of provider fetches issued and not yet answered
  gwResponse,  \* the HTTP response, once returned
  gwLastOutcome, \* how the latest provider fetch was answered, if any
  \* the Generation Client
  cOp,        \* the function applied: "none", "friendlyError", "generateImages"
  cText,      \* the argument of friendlyError
  cResponse,  \* what the fetch of /api/generate-image came back with, if anything
  cMessage,   \* the value friendlyError returned, if any
  cResult,    \* the value generateImages returned, if any
  \* the local store (IndexedDB) and the export document
  dbAnimals,   \* object store 'animals': records keyed by id
  dbScenes,    \* object store 'scenes': records keyed by id
  dbSettings,  \* object store 'settings': the record under key 'main', if any
  dbDoc,       \* the document of the latest exportAllData, if any
  dbOp,        \* the latest operation on the store: a write, an export or
               \* an import (with what it was given)
  \* the App component (App.tsx): its React state during one session
  aPage,             \* currentPage
  aAnimals,          \* animals: the characters held in memory
  aScenes,           \* scenes: the scenes held in memory
  aSelectedSceneId,  \* selectedSceneId (optional)
  aCreated,          \* number of characters and scenes created in the session
  \* the SceneViewer screen and the recorder of utils/audioRecording.ts
  vCaption,        \* caption (the text of the caption field)
  vEditing,        \* isEditingCaption
  vVoiceNote,      \* voiceNote (optional data URL)
  vRecording,      \* isRecording
  vStopping,       \* the handleStopRecording call suspended at its await, if
                   \* any: the scene its closure holds, and whether the viewer
                   \* that made the call is still mounted
  vMediaRecorder,  \* mediaRecorder: "null", "recording" or "inactive"
  vRecorded,       \* number of recordings started so far
  vOverlap,        \* whether a caption was saved while a stop was suspended,
                   \* and whether that stop has since saved its voice note
  \* utils/speechRecognition.ts and the VoiceInput button
  currentRecognition,  \* 0 for null, else the number of a session
  recognitions,        \* the sessions created so far, in order of creation:
                       \* what the browser has done with each (phase) and
                       \* whether stop() was called on it (stopped)
  isListening,         \* VoiceInput's isListening
  voiceMounted         \* whether the VoiceInput is mounted

filterVars == <<fOp, fText, fGentle, fResult>>

promptVars == <<pOp, pAnimals, pLocation, pDescription, pPrompt>>

propVars == <<settings, transcripts>>

dreamVars ==
  <<dMounted, dName, dMarkings, dSpecialThing, dPortrait, dIsGenerating,
    dError, dIsSaving, dRequest, dSaved>>

sceneVars ==
  <<sMounted, sAnimals, sStep, sSelectedAnimalIds, sLocation, sDescription,
    sGeneratedImages, sPromptUsed, sSelectedImageIndex, sError, sIsGenerating,
    sRequest, sSaved, sListening>>

gatewayVars ==
  <<gwKeys, gwRequest, gwPc, gwI, gwImages, gwAttempts, gwCalls, gwLastCall,
    gwAwait, gwInFlight, gwResponse, gwLastOutcome>>

clientVars == <<cOp, cText, cResponse, cMessage, cResult>>

storeVars == <<dbAnimals, dbScenes, dbSettings, dbDoc, dbOp>>

appVars == <<aPage, aAnimals, aScenes, aSelectedSceneId, aCreated>>

viewerVars ==
  <<vCaption, vEditing, vVoiceNote, vRecording, vStopping, vMediaRecorder,
    vRecorded, vOverlap>>

speechVars == <<currentRecognition, recognitions, isListening, voiceMounted>>

sessionVars == <<appVars, viewerVars, speechVars>>

restVars == <<clientVars, storeVars, sessionVars>>

vars == <<filterVars, promptVars, propVars, dreamVars, sceneVars, gatewayVars,
          restVars>>

NoResult == ContentCheckResult(FALSE, None, None)

FilterIdle ==
  /\ fOp = "none"
  /\ fText = <<>>
  /\ fGentle = FALSE
  /\ fResult = NoResult

NoPrompt == [kind |-> "none"]

PromptIdle ==
  /\ pOp = "none"
  /\ pAnimals = <<>>
  /\ pLocation = "Meadow"
  /\ pDescription = <<>>
  /\ pPrompt = NoPrompt

PropsIdle ==
  /\ settings = DEFAULT_SETTINGS
  /\ transcripts = 0

\* the useState initial values of DreamAnimal
DreamInitialState ==
  /\ dName = <<>>
  /\ dMarkings = <<>>
  /\ dSpecialThing = <<>>
  /\ dPortrait = None
  /\ dIsGenerating = FALSE
  /\ dError = None
  /\ dIsSaving = FALSE
  /\ dRequest = None
  /\ dSaved = None

DreamIdle == dMounted = FALSE /\ DreamInitialState

\* the useState initial values of SceneMaker
SceneInitialState ==
  /\ sStep = "select-animals"
  /\ sSelectedAnimalIds = <<>>
  /\ sLocation = "Meadow"
  /\ sDescription = <<>>
  /\ sGeneratedImages = <<>>
  /\ sPromptUsed = None
  /\ sSelectedImageIndex = None
  /\ sError = None
  /\ sIsGenerating = FALSE
  /\ sRequest = None
  /\ sSaved = None
  /\ sListening = FALSE

SceneIdle == sMounted = FALSE /\ sAnimals = <<>> /\ SceneInitialState

ScreensIdle == PropsIdle /\ DreamIdle /\ SceneIdle

ClientIdle ==
  /\ cOp = "none"
  /\ cText = ""
  /\ cResponse = None
  /\ cMessage = None
  /\ cResult = None

NoOp == [name |-> "none", intoEmpty |-> FALSE, exported |-> FALSE, key |-> None]

StoreIdle ==
  /\ dbAnimals = {}
  /\ dbScenes = {}
  /\ dbSettings = None
  /\ dbDoc = None
  /\ dbOp = NoOp

AppIdle ==
  /\ aPage = "home"
  /\ aAnimals = <<>>
  /\ aScenes = <<>>
  /\ aSelectedSceneId = None
  /\ aCreated = 0

NoOverlap == [phase |-> "none", caption |-> None, voiceNote |-> None]

ViewerIdle ==
  /\ vCaption = <<>>
  /\ vEditing = FALSE
  /\ vVoiceNote = None
  /\ vRecording = FALSE
  /\ vStopping = None
  /\ vMediaRecorder = "null"
  /\ vRecorded = 0
  /\ vOverlap = NoOverlap

SpeechIdle ==
  /\ currentRecognition = 0
  /\ recognitions = <<>>
  /\ isListening = FALSE
  /\ voiceMounted = FALSE

SessionIdle == AppIdle /\ ViewerIdle /\ SpeechIdle

RestIdle == ClientIdle /\ StoreIdle /\ SessionIdle

NoCalls == [vision |-> 0, gemini |-> 0, dalle |-> 0, download |-> 0]

GatewayIdle ==
  /\ gwKeys = [openai |-> FALSE, gemini |-> FALSE]
  /\ gwRequest = [method |-> "POST", body |-> None]
  /\ gwPc = "idle"
  /\ gwI = 0
  /\ gwImages = <<>>
  /\ gwAttempts = <<>>
  /\ gwCalls = NoCalls
  /\ gwLastCall = None
  /\ gwAwait = FALSE
  /\ gwInFlight = 0
  /\ gwResponse = None
  /\ gwLastOutcome = None

\* ------------------------------------------------------------------------
\* Specification of the filter functions on bounded inputs
\* ------------------------------------------------------------------------
FilterInit ==
  /\ fOp = "none"
  /\ fText \in FilterInputs
  /\ fGentle \in BOOLEAN
  /\ fResult = NoResult
  /\ PromptIdle
  /\ ScreensIdle
  /\ GatewayIdle
  /\ RestIdle

CallCheckContent ==
  /\ fOp = "none"
  /\ fOp' = "checkContent"
  /\ fResult' = checkContent(fText, fGentle)
  /\ UNCHANGED <<fText, fGentle, promptVars, propVars, dreamVars, sceneVars,
                 gatewayVars, restVars>>

CallValidateAnimalName ==
  /\ fOp = "none"
  /\ fOp' = "validateAnimalName"
  /\ fResult' = validateAnimalName(fText)
  /\ UNCHANGED <<fText, fGentle, promptVars, propVars, dreamVars, sceneVars,
                 gatewayVars, restVars>>

CallValidateSceneDescription ==
  /\ fOp = "none"
  /\ fOp' = "validateSceneDescription"
  /\ fResult' = validateSceneDescription(fText)
  /\ UNCHANGED <<fText, fGentle, promptVars, propVars, dreamVars, sceneVars,
                 gatewayVars, restVars>>

FilterNext ==
  \/ CallCheckContent
  \/ CallValidateAnimalName
  \/ CallValidateSceneDescription

SpecFilter == FilterInit /\ [][FilterNext]_vars

\* ------------------------------------------------------------------------
\* Properties of the Content Safety Filter
\* ------------------------------------------------------------------------
\* a letter of the text is the letter of the term in either casing
SameLetter(a, b) == a = b \/ (a \in DOMAIN LowerOf /\ LowerOf[a] = b)

\* term (lower case) occurs in text at some position, in any casing
OccursAnyCase(text, term) ==
  \E i \in 0..(Len(text) - Len(term)) :
     \A j \in 1..Len(term) : SameLetter(text[i + j], term[j])

ContainsBlockedTerm(text) ==
  \E k \in 1..Len(BLOCKED_TERMS) : OccursAnyCase(text, BLOCKED_TERMS[k])

ContainsMildTerm(text) ==
  \E k \in 1..Len(mildlyNegative) : OccursAnyCase(text, mildlyNegative[k])

\* the first term of the blocklist, in list order, that occurs in text
FirstBlockedTerm(text) ==
  BLOCKED_TERMS[CHOOSE k \in 1..Len(BLOCKED_TERMS) :
                  /\ OccursAnyCase(text, BLOCKED_TERMS[k])
                  /\ \A j \in 1..(k - 1) : ~OccursAnyCase(text, BLOCKED_TERMS[j])]

\* C2: every text that contains a blocked term as a substring, in any
\* casing and at any position, is denied by checkContent in both modes.
C2_BlockedTermDenied ==
  (fOp = "checkContent" /\ ContainsBlockedTerm(fText)) => ~fResult.isAllowed

\* a mixed-case blocked term in the middle of a text, extra gentle mode on
C2_Witness ==
  /\ fOp = "checkContent"
  /\ fGentle
  /\ fText = <<"x","w","E","d","D","i","N","g","x">>
  /\ ~fResult.isAllowed

\* C4: the message of a denial is decided by the first blocklist term (in
\* list order) occurring in the text: in extra gentle mode, when that term
\* has a gentle alternative, the message names the term and its
\* alternative; in every other case it is the generic redirect.
C4_FirstMatchDecidesMessage ==
  (fOp = "checkContent" /\ ~fResult.isAllowed) =>
     /\ ContainsBlockedTerm(fText)
     /\ LET term == FirstBlockedTerm(fText)
        IN  fResult.friendlyMessage =
              IF fGentle /\ term \in DOMAIN GENTLE_ALTERNATIVES
              THEN Some(MsgAlternative(term, GENTLE_ALTERNATIVES[term]))
              ELSE Some(MsgGenericRedirect)

\* "sad" (has an alternative) occurs before "dead" (has none) in the text,
\* but "dead" is earlier in the blocklist: generic redirect in gentle mode
C4_Witness ==
  /\ fOp = "checkContent"
  /\ fGentle
  /\ fText = <<"s","a","d","d","e","a","d">>
  /\ fResult.friendlyMessage = Some(MsgGenericRedirect)

\* C5: a text with no blocked term is allowed in both modes with
\* cleanedText equal to the input; a friendlyMessage is attached exactly
\* when extraGentle is on and the text contains a mildly-negative term.
C5_CleanTextAllowed ==
  (fOp = "checkContent" /\ ~ContainsBlockedTerm(fText)) =>
     /\ fResult.isAllowed
     /\ fResult.cleanedText = Some(fText)
     /\ IsSome(fResult.friendlyMessage) <=> (fGentle /\ ContainsMildTerm(fText))

\* an upper-case mildly-negative text in gentle mode: allowed, reassured,
\* returned in its original casing
C5_Witness ==
  /\ fOp = "checkContent"
  /\ fGentle
  /\ fText = <<"L","O","S","T"," ">>
  /\ fResult.isAllowed
  /\ fResult.friendlyMessage = Some(MsgReassure)
  /\ fResult.cleanedText = Some(fText)

IsBlank(text) == \A i \in 1..Len(text) : IsWhitespace(text[i])

\* C6 as stated: validateAnimalName denies empty, whitespace-only and
\* over-30 names, validateSceneDescription denies empty and over-500
\* descriptions, each with a dedicated message; every other input gets
\* checkContent's result.
C6_AsStated ==
  /\ fOp = "validateAnimalName" =>
       IF IsBlank(fText) \/ Len(fText) > MaxNameLen
       THEN /\ ~fResult.isAllowed
            /\ fResult.friendlyMessage \in {Some(MsgNameEmpty), Some(MsgNameTooLong)}
       ELSE fResult = checkContent(fText, FALSE)
  /\ fOp = "validateSceneDescription" =>
       IF Len(fText) = 0 \/ Len(fText) > MaxDescLen
       THEN /\ ~fResult.isAllowed
            /\ fResult.friendlyMessage \in {Some(MsgDescEmpty), Some(MsgDescTooLong)}
       ELSE fResult = checkContent(fText, FALSE)

\* C6 (amended): both validators deny empty and whitespace-only input with
\* the "empty" message, otherwise deny input over the length limit (30 /
\* 500) with the "too long" message, whatever the content; every other
\* input gets the result of checkContent in its default (non-gentle) mode.
C6_StructuralDenial ==
  /\ fOp = "validateAnimalName" =>
       fResult = IF IsBlank(fText)
                 THEN ContentCheckResult(FALSE, Some(MsgNameEmpty), None)
                 ELSE IF Len(fText) > MaxNameLen
                      THEN ContentCheckResult(FALSE, Some(MsgNameTooLong), None)
                      ELSE checkContent(fText, FALSE)
  /\ fOp = "validateSceneDescription" =>
       fResult = IF IsBlank(fText)
                 THEN ContentCheckResult(FALSE, Some(MsgDescEmpty), None)
                 ELSE IF Len(fText) > MaxDescLen
                      THEN ContentCheckResult(FALSE, Some(MsgDescTooLong), None)
                      ELSE checkContent(fText, FALSE)

\* an over-long description that also contains a blocked term is denied
\* with the length message
C6_Witness ==
  /\ fOp = "validateSceneDescription"
  /\ Len(fText) > MaxDescLen
  /\ ContainsBlockedTerm(fText)
  /\ fResult.friendlyMessage = Some(MsgDescTooLong)

\* ------------------------------------------------------------------------
\* Specification of the prompt builders on bounded inputs
\* ------------------------------------------------------------------------
PromptInit ==
  /\ FilterIdle
  /\ ScreensIdle
  /\ GatewayIdle
  /\ RestIdle
  /\ pOp = "none"
  /\ pAnimals \in AnimalLists(MaxPromptAnimals)
  /\ pLocation \in {"Meadow", "Barn"}
  /\ pDescription = <<"p","l","a","y">>
  /\ pPrompt = NoPrompt

CallBuildScenePrompt ==
  /\ pOp = "none"
  /\ pOp' = "buildScenePrompt"
  /\ pPrompt' = buildScenePrompt(pAnimals, pLocation, pDescription)
  /\ UNCHANGED <<pAnimals, pLocation, pDescription, filterVars, propVars,
                 dreamVars, sceneVars, gatewayVars, restVars>>

CallBuildAnimalPortraitPrompt ==
  /\ pOp = "none"
  /\ Len(pAnimals) = 1
  /\ pOp' = "buildAnimalPortraitPrompt"
  /\ pPrompt' = buildAnimalPortraitPrompt(pAnimals[1])
  /\ UNCHANGED <<pAnimals, pLocation, pDescription, filterVars, propVars,
                 dreamVars, sceneVars, gatewayVars, restVars>>

PromptNext ==
  \/ CallBuildScenePrompt
  \/ CallBuildAnimalPortraitPrompt

SpecPrompt == PromptInit /\ [][PromptNext]_vars

\* ------------------------------------------------------------------------
\* Properties of the Prompt Builder
\* ------------------------------------------------------------------------
\* the character has a portrait or a sticker image
HasPicture(a) ==
  \/ (IsSome(a.portraitDataUrl) /\ a.portraitDataUrl[1] # "")
  \/ (IsSome(a.stickerDataUrl) /\ a.stickerDataUrl[1] # "")

CountKind(descriptor, kinds) ==
  Cardinality({j \in 1..Len(descriptor) : descriptor[j].kind \in kinds})

ColorKinds == {"primary", "secondary", "markings", "close"}

\* C7: in the scene prompt, a character with a portrait or sticker has
\* exactly one "shown in reference image" deferral and no colour text; a
\* character with neither has exactly one full inline colour clause
\* (primary, the secondary and the markings when it has them) and no
\* deferral; so deferrals count the characters with an image and colour
\* clauses those without.
C7_DeferralXorColor ==
  pOp = "buildScenePrompt" =>
    /\ Len(pPrompt.characters) = Len(pAnimals)
    /\ \A i \in 1..Len(pAnimals) :
         LET d == pPrompt.characters[i]
             a == pAnimals[i]
         IN  IF HasPicture(a)
             THEN /\ CountKind(d, {"reference"}) = 1
                  /\ CountKind(d, ColorKinds) = 0
             ELSE /\ CountKind(d, {"reference"}) = 0
                  /\ CountKind(d, {"primary"}) = 1
                  /\ CountKind(d, {"close"}) = 1
                  /\ \E j \in 1..Len(d) :
                       d[j].kind = "primary" /\ d[j].lit = a.colors.primary
                  /\ CountKind(d, {"secondary"}) =
                       (IF a.colors.secondary # "" THEN 1 ELSE 0)
                  /\ CountKind(d, {"markings"}) =
                       (IF TruthyText(a.colors.markings) THEN 1 ELSE 0)

DeferralCount(prompt) ==
  Cardinality({i \in 1..Len(prompt.characters) :
                 CountKind(prompt.characters[i], {"reference"}) > 0})

ColorClauseCount(prompt) ==
  Cardinality({i \in 1..Len(prompt.characters) :
                 CountKind(prompt.characters[i], {"primary"}) > 0})

\* three characters, two with an image (a portrait and a sticker) and one
\* without: two deferrals and one colour clause
C7_Witness ==
  /\ pOp = "buildScenePrompt"
  /\ Len(pAnimals) = 3
  /\ Cardinality({i \in 1..3 : HasPicture(pAnimals[i])}) = 2
  /\ \E i \in 1..3 : IsSome(pAnimals[i].stickerDataUrl)
  /\ DeferralCount(pPrompt) = 2
  /\ ColorClauseCount(pPrompt) = 1

\* ------------------------------------------------------------------------
\* The DreamAnimal screen (DreamAnimal.tsx)
\* ------------------------------------------------------------------------
Gun == <<"g","u","n">>

\* what the user types into a text field, and what the microphone hears
TypedTexts == {<<>>, <<" ">>, Star, Gun}

VoiceWords == {Gun}

DreamInit ==
  /\ FilterIdle
  /\ PromptIdle
  /\ SceneIdle
  /\ GatewayIdle
  /\ RestIdle
  /\ settings \in {x \in SavedSettings : x.imageCount = DEFAULT_SETTINGS.imageCount}
  /\ transcripts = 0
  /\ dMounted = TRUE
  /\ DreamInitialState

dreamOther == <<filterVars, promptVars, sceneVars, gatewayVars, restVars, settings>>

\* <input maxLength={30}> onChange={(e) => setName(e.target.value)}
DreamSetName(t) ==
  /\ dMounted
  /\ Len(t) <= 30
  /\ dName' = t
  /\ UNCHANGED <<dMounted, dMarkings, dSpecialThing, dPortrait, dIsGenerating,
                 dError, dIsSaving, dRequest, dSaved, transcripts, dreamOther>>

\* <input maxLength={100}> onChange={(e) => setMarkings(e.target.value)}
DreamSetMarkings(t) ==
  /\ dMounted
  /\ Len(t) <= 100
  /\ dMarkings' = t
  /\ UNCHANGED <<dMounted, dName, dSpecialThing, dPortrait, dIsGenerating,
                 dError, dIsSaving, dRequest, dSaved, transcripts, dreamOther>>

\* <input maxLength={100}> onChange={(e) => setSpecialThing(e.target.value)}
DreamSetSpecialThing(t) ==
  /\ dMounted
  /\ Len(t) <= 100
  /\ dSpecialThing' = t
  /\ UNCHANGED <<dMounted, dName, dMarkings, dPortrait, dIsGenerating,
                 dError, dIsSaving, dRequest, dSaved, transcripts, dreamOther>>

\* prev => prev ? prev + ' ' + text : text
AppendSpoken(prev, text) == IF Len(prev) > 0 THEN prev \o <<" ">> \o text ELSE text

\* VoiceInput onTranscript={(text) => setName(prev => prev + text)}
DreamVoiceName(w) ==
  /\ dMounted
  /\ transcripts < MaxTranscripts
  /\ transcripts' = transcripts + 1
  /\ dName' = dName \o w
  /\ UNCHANGED <<dMounted, dMarkings, dSpecialThing, dPortrait, dIsGenerating,
                 dError, dIsSaving, dRequest, dSaved, dreamOther>>

DreamVoiceMarkings(w) ==
  /\ dMounted
  /\ transcripts < MaxTranscripts
  /\ transcripts' = transcripts + 1
  /\ dMarkings' = AppendSpoken(dMarkings, w)
  /\ UNCHANGED <<dMounted, dName, dSpecialThing, dPortrait, dIsGenerating,
                 dError, dIsSaving, dRequest, dSaved, dreamOther>>

DreamVoiceSpecialThing(w) ==
  /\ dMounted
  /\ transcripts < MaxTranscripts
  /\ transcripts' = transcripts + 1
  /\ dSpecialThing' = AppendSpoken(dSpecialThing, w)
  /\ UNCHANGED <<dMounted, dName, dMarkings, dPortrait, dIsGenerating,
                 dError, dIsSaving, dRequest, dSaved, dreamOther>>

\* the validation both handlers start with: the message to show, or None
\* when the name and the special thing are accepted
DreamValidationError ==
  LET nameCheck == validateAnimalName(dName)
      specialCheck == checkContent(dSpecialThing, settings.extraGentleMode)
  IN  IF ~nameCheck.isAllowed THEN nameCheck.friendlyMessage
      ELSE IF Len(dSpecialThing) > 0 /\ ~specialCheck.isAllowed
           THEN specialCheck.friendlyMessage
           ELSE None

\* mutant: the portrait buttons are disabled only while there is no name
portraitDisabled_NameOnly == Len(dName) = 0

\* disabled={isGenerating || !name} of both portrait buttons
portraitDisabled == dIsGenerating \/ Len(dName) = 0

\* handleGeneratePortrait up to its await
DreamHandleGeneratePortrait ==
  /\ dMounted
  /\ ~portraitDisabled
  /\ IF IsSome(DreamValidationError)
     THEN /\ dError' = DreamValidationError
          /\ UNCHANGED <<dIsGenerating, dRequest>>
     ELSE /\ dIsGenerating' = TRUE
          /\ dError' = None
          /\ dRequest' = Some(generateAnimalPortrait(
                                dreamTempAnimal(dName, dMarkings, dSpecialThing)))
  /\ UNCHANGED <<dMounted, dName, dMarkings, dSpecialThing, dPortrait, dIsSaving,
                 dSaved, transcripts, dreamOther>>

\* handleGeneratePortrait after its await. The state setters of a component
\* that has been unmounted meanwhile have no effect.
DreamPortraitResponse(result) ==
  /\ IsSome(dRequest)
  /\ dRequest' = None
  /\ IF dMounted
     THEN /\ IF result.success /\ Len(result.images) > 0
             THEN dPortrait' = Some(result.images[1]) /\ UNCHANGED dError
             ELSE dError' = result.error /\ UNCHANGED dPortrait
          /\ dIsGenerating' = FALSE
     ELSE UNCHANGED <<dPortrait, dError, dIsGenerating>>
  /\ UNCHANGED <<dMounted, dName, dMarkings, dSpecialThing, dIsSaving, dSaved,
                 transcripts, dreamOther>>

\* the component's state is discarded when it unmounts; a generateImages
\* call in flight stays in flight
DreamDiscardState ==
  /\ dMounted' = FALSE
  /\ dName' = <<>>
  /\ dMarkings' = <<>>
  /\ dSpecialThing' = <<>>
  /\ dPortrait' = None
  /\ dIsGenerating' = FALSE
  /\ dError' = None
  /\ dIsSaving' = FALSE

\* handleSave; the button is disabled while !name || isSaving. onSave is
\* App.handleSaveAnimal, which stores the animal and navigates to the
\* animals page, unmounting this screen; no user input is taken between
\* the click and that navigation.
DreamHandleSave ==
  /\ dMounted
  /\ Len(dName) > 0
  /\ ~dIsSaving
  /\ IF IsSome(DreamValidationError)
     THEN /\ dError' = DreamValidationError
          /\ UNCHANGED <<dMounted, dName, dMarkings, dSpecialThing, dPortrait,
                         dIsGenerating, dIsSaving, dSaved>>
     ELSE /\ dSaved' = Some(dreamAnimalToSave("new", dName, dMarkings,
                                              dSpecialThing, dPortrait))
          /\ DreamDiscardState
  /\ UNCHANGED <<dRequest, transcripts, dreamOther>>

\* onCancel or the header's back button
DreamUnmount ==
  /\ dMounted
  /\ DreamDiscardState
  /\ UNCHANGED <<dRequest, dSaved, transcripts, dreamOther>>

DreamNext ==
  \/ \E t \in TypedTexts : DreamSetName(t)
  \/ \E t \in TypedTexts : DreamSetMarkings(t)
  \/ \E t \in TypedTexts : DreamSetSpecialThing(t)
  \/ \E w \in VoiceWords : DreamVoiceName(w)
  \/ \E w \in VoiceWords : DreamVoiceMarkings(w)
  \/ \E w \in VoiceWords : DreamVoiceSpecialThing(w)
  \/ DreamHandleGeneratePortrait
  \/ \E result \in GenerationResults(1) : DreamPortraitResponse(result)
  \/ DreamHandleSave
  \/ DreamUnmount

SpecDream == DreamInit /\ [][DreamNext]_vars

\* ------------------------------------------------------------------------
\* The SceneMaker screen (SceneMaker.tsx)
\* ------------------------------------------------------------------------
Fight == <<"f","i","g","h","t">>

Play == <<"p","l","a","y">>

\* The stable the scene maker is opened with: animals as the two save
\* handlers build them. The dream-animal form saves any markings, the toy
\* form any special thing; the first and the third have no image.
StableAnimal(i) ==
  CASE i % 4 = 1 -> dreamAnimalToSave(ToString(i), Star, Gun, <<>>, None)
    [] i % 4 = 2 -> toyAnimalToSave(ToString(i), Star, Gun, "data:sticker")
    [] i % 4 = 3 -> dreamAnimalToSave(ToString(i), Star, <<>>, Spots, None)
    [] OTHER -> dreamAnimalToSave(ToString(i), Star, <<>>, <<>>,
                                  Some("data:portrait"))

Stable(n) == [i \in 1..n |-> StableAnimal(i)]

DescriptionTexts == {<<>>, <<" ">>, Fight, Play}

SpokenDescriptions == {Fight}

Locations == {"Meadow", "Barn"}

SceneInit ==
  /\ FilterIdle
  /\ PromptIdle
  /\ DreamIdle
  /\ GatewayIdle
  /\ RestIdle
  /\ settings \in {x \in SavedSettings : x.imageCount \in {1, 4}}
  /\ transcripts = 0
  /\ sMounted = TRUE
  /\ sAnimals \in {Stable(n) : n \in 0..MaxAnimals}
  /\ SceneInitialState

sceneOther ==
  <<filterVars, promptVars, dreamVars, gatewayVars, restVars, settings, sAnimals>>

Contains(seq, x) == \E i \in 1..Len(seq) : seq[i] = x

\* animals.filter(a => selectedAnimalIds.includes(a.id))
selectedAnimals ==
  SelectSeq(sAnimals, LAMBDA a : Contains(sSelectedAnimalIds, a.id))

MaxSelected == 3

\* toggleAnimal; the card of an unselected animal is disabled once three
\* are selected
SceneToggleAnimal(id) ==
  /\ sMounted
  /\ sStep = "select-animals"
  /\ Contains(sSelectedAnimalIds, id) \/ Len(sSelectedAnimalIds) < MaxSelected
  /\ sSelectedAnimalIds' =
       IF Contains(sSelectedAnimalIds, id)
       THEN SelectSeq(sSelectedAnimalIds, LAMBDA aid : aid # id)
       ELSE IF Len(sSelectedAnimalIds) < MaxSelected
            THEN Append(sSelectedAnimalIds, id)
            ELSE sSelectedAnimalIds
  /\ UNCHANGED <<sMounted, sStep, sLocation, sDescription, sGeneratedImages,
                 sPromptUsed, sSelectedImageIndex, sError, sIsGenerating,
                 sRequest, sSaved, transcripts, sListening, sceneOther>>

\* "Next" (disabled while nothing is selected): setStep('configure')
SceneNextStep ==
  /\ sMounted
  /\ sStep = "select-animals"
  /\ Len(sSelectedAnimalIds) # 0
  /\ sStep' = "configure"
  /\ UNCHANGED <<sMounted, sSelectedAnimalIds, sLocation, sDescription,
                 sGeneratedImages, sPromptUsed, sSelectedImageIndex, sError,
                 sIsGenerating, sRequest, sSaved, transcripts, sListening, sceneOther>>

\* "Back": setStep('select-animals')
SceneBackStep ==
  /\ sMounted
  /\ sStep = "configure"
  /\ sStep' = "select-animals"
  /\ UNCHANGED <<sMounted, sSelectedAnimalIds, sLocation, sDescription,
                 sGeneratedImages, sPromptUsed, sSelectedImageIndex, sError,
                 sIsGenerating, sRequest, sSaved, transcripts, sListening, sceneOther>>

SceneSetLocation(l) ==
  /\ sMounted
  /\ sStep = "configure"
  /\ sLocation' = l
  /\ UNCHANGED <<sMounted, sStep, sSelectedAnimalIds, sDescription,
                 sGeneratedImages, sPromptUsed, sSelectedImageIndex, sError,
                 sIsGenerating, sRequest, sSaved, transcripts, sListening, sceneOther>>

\* <textarea maxLength={500}> onChange={(e) => setDescription(e.target.value)}
SceneSetDescription(t) ==
  /\ sMounted
  /\ sStep = "configure"
  /\ Len(t) <= 500
  /\ sDescription' = t
  /\ UNCHANGED <<sMounted, sStep, sSelectedAnimalIds, sLocation,
                 sGeneratedImages, sPromptUsed, sSelectedImageIndex, sError,
                 sIsGenerating, sRequest, sSaved, transcripts, sListening, sceneOther>>

\* VoiceInput.handleToggle of the description field: a recognition is
\* started (the field and its microphone exist in the configure step only)
SceneVoiceStart ==
  /\ sMounted
  /\ sStep = "configure"
  /\ ~sListening
  /\ transcripts < MaxTranscripts
  /\ transcripts' = transcripts + 1
  /\ sListening' = TRUE
  /\ UNCHANGED <<sMounted, sStep, sSelectedAnimalIds, sLocation, sDescription,
                 sGeneratedImages, sPromptUsed, sSelectedImageIndex, sError,
                 sIsGenerating, sRequest, sSaved, sceneOther>>

\* The recognition delivers its final result: onResult calls onTranscript,
\* setDescription(prev => prev ? prev + ' ' + text : text). The VoiceInput
\* that started it may be unmounted by then (the step has changed): its
\* cleanup calls recognition.stop(), after which the recognition still
\* returns a result for what it has heard.
SceneVoiceDescription(w) ==
  /\ sMounted
  /\ sListening
  /\ sListening' = FALSE
  /\ sDescription' = AppendSpoken(sDescription, w)
  /\ UNCHANGED <<sMounted, sStep, sSelectedAnimalIds, sLocation,
                 sGeneratedImages, sPromptUsed, sSelectedImageIndex, sError,
                 sIsGenerating, sRequest, sSaved, transcripts, sceneOther>>

\* the recognition ends without a final result
SceneVoiceEnd ==
  /\ sMounted
  /\ sListening
  /\ sListening' = FALSE
  /\ UNCHANGED <<sMounted, sStep, sSelectedAnimalIds, sLocation, sDescription,
                 sGeneratedImages, sPromptUsed, sSelectedImageIndex, sError,
                 sIsGenerating, sRequest, sSaved, transcripts, sceneOther>>

\* handleGenerate up to its await. "Make Pictures!" (configure step) is
\* disabled while !description.trim(); "New Pictures" (results step) while
\* isGenerating.
SceneHandleGenerate ==
  /\ sMounted
  /\ \/ sStep = "configure" /\ Len(trim(sDescription)) > 0
     \/ sStep = "results" /\ ~sIsGenerating
  /\ LET descCheck == validateSceneDescription(sDescription)
     IN  IF ~descCheck.isAllowed
         THEN /\ sError' = descCheck.friendlyMessage
              /\ UNCHANGED <<sIsGenerating, sStep, sRequest>>
         ELSE /\ sError' = None
              /\ sIsGenerating' = TRUE
              /\ sStep' = "generating"
              /\ sRequest' = Some(generateSceneImages(selectedAnimals, sLocation,
                                                      sDescription, settings))
  /\ UNCHANGED <<sMounted, sSelectedAnimalIds, sLocation, sDescription,
                 sGeneratedImages, sPromptUsed, sSelectedImageIndex, sSaved,
                 transcripts, sListening, sceneOther>>

\* handleGenerate after its await
SceneGenerateResponse(result) ==
  /\ IsSome(sRequest)
  /\ sRequest' = None
  /\ IF sMounted
     THEN /\ IF result.success /\ Len(result.images) > 0
             THEN /\ sGeneratedImages' = result.images
                  /\ sPromptUsed' = Some(sRequest[1].prompt)
                  /\ sStep' = "results"
                  /\ UNCHANGED sError
             ELSE /\ sError' = result.error
                  /\ sStep' = "configure"
                  /\ UNCHANGED <<sGeneratedImages, sPromptUsed>>
          /\ sIsGenerating' = FALSE
     ELSE UNCHANGED <<sGeneratedImages, sPromptUsed, sStep, sError, sIsGenerating>>
  /\ UNCHANGED <<sMounted, sSelectedAnimalIds, sLocation, sDescription,
                 sSelectedImageIndex, sSaved, transcripts, sListening, sceneOther>>

\* a result card: setSelectedImageIndex(index)
ScenePickImage(index) ==
  /\ sMounted
  /\ sStep = "results"
  /\ index \in 0..(Len(sGeneratedImages) - 1)
  /\ sSelectedImageIndex' = Some(index)
  /\ UNCHANGED <<sMounted, sStep, sSelectedAnimalIds, sLocation, sDescription,
                 sGeneratedImages, sPromptUsed, sError, sIsGenerating, sRequest,
                 sSaved, transcripts, sListening, sceneOther>>

\* the component's state is discarded when it unmounts; a generateImages
\* call in flight stays in flight
SceneDiscardState ==
  /\ sMounted' = FALSE
  /\ sStep' = "select-animals"
  /\ sSelectedAnimalIds' = <<>>
  /\ sLocation' = "Meadow"
  /\ sDescription' = <<>>
  /\ sGeneratedImages' = <<>>
  /\ sPromptUsed' = None
  /\ sSelectedImageIndex' = None
  /\ sError' = None
  /\ sIsGenerating' = FALSE
  /\ sListening' = FALSE

\* handleSave ("Save to Storybook" is disabled while nothing is picked).
\* onSave is App.handleSaveScene, which stores the scene and navigates to
\* the storybook, unmounting this screen; no user input is taken between
\* the click and that navigation.
handleSave(id) ==
  /\ sMounted
  /\ sStep = "results"
  /\ IsSome(sSelectedImageIndex)
  /\ sSaved' = Some(sceneToSave(id, selectedAnimals, sLocation,
                                sSelectedAnimalIds, sDescription,
                                IF IsSome(sPromptUsed) THEN sPromptUsed[1] ELSE NoPrompt,
                                sGeneratedImages, sSelectedImageIndex[1]))
  /\ SceneDiscardState

\* the scene maker on its own: what onSave does to the store is left out
SceneHandleSave ==
  /\ handleSave("new")
  /\ UNCHANGED <<sRequest, transcripts, sceneOther>>

\* onCancel or the header's back button
SceneUnmount ==
  /\ sMounted
  /\ SceneDiscardState
  /\ UNCHANGED <<sRequest, sSaved, transcripts, sceneOther>>

SceneNext ==
  \/ \E i \in 1..Len(sAnimals) : SceneToggleAnimal(sAnimals[i].id)
  \/ SceneNextStep
  \/ SceneBackStep
  \/ \E l \in Locations : SceneSetLocation(l)
  \/ \E t \in DescriptionTexts : SceneSetDescription(t)
  \/ SceneVoiceStart
  \/ \E w \in SpokenDescriptions : SceneVoiceDescription(w)
  \/ SceneVoiceEnd
  \/ SceneHandleGenerate
  \/ \E result \in GenerationResults(4) : SceneGenerateResponse(result)
  \/ \E index \in 0..3 : ScenePickImage(index)
  \/ SceneHandleSave
  \/ SceneUnmount

SpecScene == SceneInit /\ [][SceneNext]_vars

\* ------------------------------------------------------------------------
\* Properties of the screens
\* ------------------------------------------------------------------------
\* the generateImages calls in flight
RequestsInFlight ==
  {dRequest[i] : i \in 1..Len(dRequest)} \cup {sRequest[i] : i \in 1..Len(sRequest)}

OptionalTexts(o) == {o[i] : i \in 1..Len(o)}

\* the user-entered free texts interpolated into a prompt: names, markings,
\* special traits and the scene description
UserTexts(prompt) ==
  IF prompt.kind = "portrait"
  THEN {prompt.name} \cup OptionalTexts(prompt.markingsDesc)
         \cup OptionalTexts(prompt.specialDetail)
  ELSE {prompt.description} \cup
       UNION {{d[j].text : j \in {k \in 1..Len(d) :
                                    d[k].kind \in {"name", "markings", "special"}}} :
                d \in {prompt.characters[i] : i \in 1..Len(prompt.characters)}}

\* C1: every user-entered free text in a prompt handed to generateImages
\* (portrait or scene) is allowed by checkContent; no prompt with a blocked
\* term in a user free-text field reaches generateImages.
C1_PromptTextsFiltered ==
  \A r \in RequestsInFlight :
    \A t \in UserTexts(r.prompt) : checkContent(t, settings.extraGentleMode).isAllowed

\* C3: when the scene maker validates the description "fight", generation
\* is denied in both modes; the message is the generic redirect when the
\* extraGentleMode setting is off, and suggests "play" instead of "fight"
\* when it is on.
C3_FightDeniedWithModeMessage ==
  [][(SceneHandleGenerate /\ sDescription = Fight) =>
       /\ sRequest' = None
       /\ sError' = IF settings.extraGentleMode
                    THEN Some(MsgAlternative(Fight, Play))
                    ELSE Some(MsgGenericRedirect)]_vars

\* C19: every character handed to onSave by the dream-animal screen has a
\* name that is non-empty, of at most 30 characters and allowed by the
\* filter, and markings and a special trait that, when present, are each
\* allowed by the filter.
C19_SavedCharacterValid ==
  IsSome(dSaved) =>
    /\ Len(dSaved[1].name) \in 1..MaxNameLen
    /\ checkContent(dSaved[1].name, settings.extraGentleMode).isAllowed
    /\ \A t \in OptionalTexts(dSaved[1].colors.markings)
            \cup OptionalTexts(dSaved[1].specialThing) :
         checkContent(t, settings.extraGentleMode).isAllowed

DistinctIds(ids) == \A i, j \in 1..Len(ids) : ids[i] = ids[j] => i = j

\* C20: every scene handed to onSave has a userDescription that is
\* non-empty, of at most 500 characters and allowed by the filter, and an
\* animalIds list of one to three distinct ids.
C20_SavedSceneValid ==
  IsSome(sSaved) =>
    /\ Len(sSaved[1].userDescription) \in 1..MaxDescLen
    /\ checkContent(sSaved[1].userDescription, settings.extraGentleMode).isAllowed
    /\ Len(sSaved[1].animalIds) \in 1..MaxSelected
    /\ DistinctIds(sSaved[1].animalIds)

\* the dream-animal form or the scene maker (opened with one animal in the
\* stable) is on the page
ScreensInit ==
  \/ DreamInit /\ settings = DEFAULT_SETTINGS
  \/ SceneInit /\ settings = DEFAULT_SETTINGS /\ sAnimals = Stable(1)

\* every control of the two screens, the text fields with two texts each
ScreensNext ==
  \/ \E t \in {<<>>, Star} : DreamSetName(t)
  \/ \E t \in {<<>>, Gun} : DreamSetMarkings(t)
  \/ \E t \in {<<>>, Gun} : DreamSetSpecialThing(t)
  \/ \E w \in VoiceWords : DreamVoiceName(w)
  \/ \E w \in VoiceWords : DreamVoiceMarkings(w)
  \/ \E w \in VoiceWords : DreamVoiceSpecialThing(w)
  \/ DreamHandleGeneratePortrait
  \/ \E result \in GenerationResults(1) : DreamPortraitResponse(result)
  \/ DreamHandleSave
  \/ DreamUnmount
  \/ \E i \in 1..Len(sAnimals) : SceneToggleAnimal(sAnimals[i].id)
  \/ SceneNextStep
  \/ SceneBackStep
  \/ \E l \in Locations : SceneSetLocation(l)
  \/ \E t \in {Play, Fight} : SceneSetDescription(t)
  \/ SceneVoiceStart
  \/ \E w \in SpokenDescriptions : SceneVoiceDescription(w)
  \/ SceneVoiceEnd
  \/ SceneHandleGenerate
  \/ \E result \in GenerationResults(4) : SceneGenerateResponse(result)
  \/ \E index \in 0..3 : ScenePickImage(index)
  \/ SceneHandleSave
  \/ SceneUnmount

SpecScreens == ScreensInit /\ [][ScreensNext]_vars

\* C25: a mounted dream-animal form and a mounted scene maker each have at
\* most one generation request outstanding: whenever a step of
\* handleGeneratePortrait or handleGenerate issues a request, the screen's
\* previous request, if there was one, has returned.
C25_OneRequestOutstanding ==
  /\ [][(DreamHandleGeneratePortrait /\ IsSome(dRequest')) => dRequest = None]_vars
  /\ [][(SceneHandleGenerate /\ IsSome(sRequest')) => sRequest = None]_vars

\* "New Pictures" has been pressed on the results of an earlier generation
\* and its request is outstanding
C25_Witness ==
  /\ sMounted
  /\ sStep = "generating"
  /\ IsSome(sRequest)
  /\ Len(sGeneratedImages) > 0

\* C23: every scene handed to onSave by the scene maker has a chosen
\* favorite image, and that image is one of the scene's imageDataUrls.
C23_SavedSceneHasFavorite ==
  IsSome(sSaved) =>
    /\ IsSome(sSaved[1].chosenImageDataUrl)
    /\ Contains(sSaved[1].imageDataUrls, sSaved[1].chosenImageDataUrl[1])

\* C26: in a request built by generateSceneImages, each "shown in reference
\* image N" of a character's descriptor names that character's own image:
\* N is at most the number of reference images sent, and the N-th of them
\* is the character's portrait or sticker.
C26_ReferenceNumberIsOwnImage ==
  (sMounted /\ IsSome(sRequest)) =>
    \A k \in 1..Len(sRequest[1].prompt.characters) :
       \A j \in 1..Len(sRequest[1].prompt.characters[k]) :
          LET part == sRequest[1].prompt.characters[k][j]
              own == OrElse(selectedAnimals[k].portraitDataUrl,
                            selectedAnimals[k].stickerDataUrl)
          IN  part.kind = "reference" =>
                /\ part.n \in 1..Len(sRequest[1].referenceImages)
                /\ Some(sRequest[1].referenceImages[part.n]) = own

\* ------------------------------------------------------------------------
\* The Generation Client (imageGeneration.ts): generateImages, friendlyError
\* ------------------------------------------------------------------------
\* the characters of a string
Chars(s) == [i \in 1..Len(s) |-> SubSeq(s, i, i)]

MsgRateLimited == Message("Whoa, slow down! Wait a moment and try again", <<>>)

MsgContentRejected == Message("Let's try describing something different!", <<>>)

MsgMisconfigured == Message("Oops! Something's not set up right. Ask Uncle Gavin!", <<>>)

MsgQuota == Message("The magic machine needs more fuel! Ask Uncle Gavin", <<>>)

MsgGeneric == Message("Something went wrong. Let's try again!", <<>>)

MsgNoImages == Message("No images were created. Let's try again!", <<>>)

MsgConnect == Message("Could not connect to the server. Check your internet!", <<>>)

\* mutant: the credential test is made before the content test
friendlyError_AuthBeforeContent(error) ==
  LET has(term) == includes(Chars(error), Chars(term))
  IN  IF has("Rate") \/ has("rate") \/ has("429") THEN MsgRateLimited
      ELSE IF has("API key") \/ has("not configured") \/ has("auth") \/ has("401")
      THEN MsgMisconfigured
      ELSE IF has("content") \/ has("safety") \/ has("policy") THEN MsgContentRejected
      ELSE IF has("billing") \/ has("quota") \/ has("403") THEN MsgQuota
      ELSE MsgGeneric

friendlyError(error) ==
  LET has(term) == includes(Chars(error), Chars(term))
  IN  IF has("Rate") \/ has("rate") \/ has("429") THEN MsgRateLimited
      ELSE IF has("content") \/ has("safety") \/ has("policy") THEN MsgContentRejected
      ELSE IF has("API key") \/ has("not configured") \/ has("auth") \/ has("401")
      THEN MsgMisconfigured
      ELSE IF has("billing") \/ has("quota") \/ has("403") THEN MsgQuota
      ELSE MsgGeneric

\* What the client's fetch comes back with: kind "throw" when fetch rejects,
\* "unparseable" when response.json() rejects, "json" with the parsed data
\* (its error and images fields, each possibly missing) otherwise.
FetchResult(kind, status, error, images) ==
  [kind |-> kind, status |-> status, data |-> [error |-> error, images |-> images]]

\* response.ok
ok(status) == status \in 200..299

\* mutant: an ok response is a success whatever its images field holds
generateImages_TrustsOk(response) ==
  IF response.kind \in {"throw", "unparseable"}
  THEN ImageGenerationResult(FALSE, <<>>, Some(MsgConnect))
  ELSE IF ~ok(response.status)
  THEN ImageGenerationResult(FALSE, <<>>,
         Some(friendlyError(IF Truthy(response.data.error)
                            THEN response.data.error[1]
                            ELSE "Error " \o ToString(response.status))))
  ELSE ImageGenerationResult(TRUE,
         IF IsSome(response.data.images) THEN response.data.images[1] ELSE <<>>, None)

\* the value generateImages returns, from what its fetch came back with
generateImages(response) ==
  IF response.kind \in {"throw", "unparseable"}
  THEN ImageGenerationResult(FALSE, <<>>, Some(MsgConnect))
  ELSE IF ~ok(response.status)
  THEN ImageGenerationResult(FALSE, <<>>,
         Some(friendlyError(IF Truthy(response.data.error)
                            THEN response.data.error[1]
                            ELSE "Error " \o ToString(response.status))))
  ELSE IF ~IsSome(response.data.images) \/ Len(response.data.images[1]) = 0
  THEN ImageGenerationResult(FALSE, <<>>, Some(MsgNoImages))
  ELSE ImageGenerationResult(TRUE, response.data.images[1], None)

\* the substrings friendlyError looks for, by category, and other words
ErrorWords ==
  {"Rate", "rate", "429", "content", "safety", "policy", "API key",
   "not configured", "auth", "401", "billing", "quota", "403",
   "RATE", "Auth", "Server error", "No images generated",
   "Image generation failed", "unauthorized", "x"}

RECURSIVE ErrorTexts(_)
\* the texts made of at most n words, separated by a blank
ErrorTexts(n) ==
  IF n = 0 THEN {""}
  ELSE ErrorTexts(n - 1)
       \cup {IF t = "" THEN w ELSE t \o " " \o w : t \in ErrorTexts(n - 1), w \in ErrorWords}

ClientStatuses == {200, 204, 400, 401, 429, 500}

ClientImages == {None, Some(<<>>)} \cup {Some(Images(n)) : n \in 1..MaxImages}

ClientResponses ==
  {FetchResult("throw", 0, None, None)}
  \cup {FetchResult("unparseable", st, None, None) : st \in ClientStatuses}
  \cup {FetchResult("json", st, e, i) :
          st \in ClientStatuses, e \in {None, Some(""), Some("Rate limited")},
          i \in ClientImages}

ClientInit ==
  /\ FilterIdle
  /\ PromptIdle
  /\ ScreensIdle
  /\ GatewayIdle
  /\ StoreIdle
  /\ SessionIdle
  /\ cOp = "none"
  /\ \/ /\ cText \in ErrorTexts(MaxErrorWords)
        /\ cResponse \in {Some(FetchResult("json", st, None, None)) : st \in {400, 500}}
     \/ /\ cText = ""
        /\ cResponse \in {Some(r) : r \in ClientResponses}
  /\ cMessage = None
  /\ cResult = None

clientOther ==
  <<filterVars, promptVars, propVars, dreamVars, sceneVars, gatewayVars, storeVars,
    sessionVars>>

CallFriendlyError ==
  /\ cOp = "none"
  /\ cOp' = "friendlyError"
  /\ cMessage' = Some(friendlyError(cText))
  /\ UNCHANGED <<cText, cResponse, cResult, clientOther>>

\* generateImages on a non-ok JSON response whose error field is cText
CallGenerateImagesError ==
  /\ cOp = "none"
  /\ cResponse[1].kind = "json"
  /\ ~ok(cResponse[1].status)
  /\ cOp' = "generateImages"
  /\ cResponse' = Some([cResponse[1] EXCEPT !.data.error = Some(cText)])
  /\ cResult' = Some(generateImages(cResponse'[1]))
  /\ UNCHANGED <<cText, cMessage, clientOther>>

CallGenerateImages ==
  /\ cOp = "none"
  /\ cOp' = "generateImages"
  /\ cResult' = Some(generateImages(cResponse[1]))
  /\ UNCHANGED <<cText, cResponse, cMessage, clientOther>>

ClientNext ==
  \/ CallFriendlyError
  \/ CallGenerateImagesError
  \/ CallGenerateImages

SpecClient == ClientInit /\ [][ClientNext]_vars

\* ------------------------------------------------------------------------
\* Properties of the Generation Client
\* ------------------------------------------------------------------------
ClientMessages ==
  {MsgRateLimited, MsgContentRejected, MsgMisconfigured, MsgQuota, MsgGeneric}

\* C13: generateImages returns success only with a non-empty images list;
\* an ok response whose images field is missing or empty gives failure with
\* the no-images message; and whatever the fetch came back with, a rejected
\* fetch and an unparseable body included, the call returns a result value
\* (a failure always carries a message).
C13_SuccessHasImages ==
  cOp = "generateImages" =>
    /\ IsSome(cResult)
    /\ cResult[1].success => (Len(cResult[1].images) > 0 /\ cResult[1].error = None)
    /\ ~cResult[1].success =>
         /\ cResult[1].images = <<>>
         /\ IsSome(cResult[1].error)
         /\ cResult[1].error[1] \in ClientMessages \cup {MsgNoImages, MsgConnect}
    /\ (cResponse[1].kind = "json" /\ cResponse[1].status \in 200..299
        /\ (cResponse[1].data.images = None \/ cResponse[1].data.images = Some(<<>>))) =>
         cResult[1] = ImageGenerationResult(FALSE, <<>>, Some(MsgNoImages))
    /\ cResponse[1].kind \in {"throw", "unparseable"} =>
         cResult[1] = ImageGenerationResult(FALSE, <<>>, Some(MsgConnect))

\* status 200 with an empty images array was turned into the no-images failure
C13_Witness ==
  /\ cOp = "generateImages"
  /\ cResponse[1].kind = "json"
  /\ cResponse[1].status = 200
  /\ cResponse[1].data.images = Some(<<>>)
  /\ cResult = Some(ImageGenerationResult(FALSE, <<>>, Some(MsgNoImages)))

\* term occurs in text as a substring, letter for letter
Occurs(text, term) ==
  \E i \in 0..(Len(Chars(text)) - Len(Chars(term))) :
     \A j \in 1..Len(Chars(term)) : Chars(text)[i + j] = Chars(term)[j]

OccursAny(text, terms) == \E term \in terms : Occurs(text, term)

\* an upstream error text has been classified: by friendlyError itself, or
\* by generateImages on a non-ok response carrying it in its error field
UpstreamClassified ==
  \/ cOp = "friendlyError"
  \/ /\ cOp = "generateImages"
     /\ cText # ""
     /\ cResponse[1].kind = "json"
     /\ ~ok(cResponse[1].status)
     /\ cResponse[1].data.error = Some(cText)

ReturnedMessage ==
  IF cOp = "friendlyError" THEN cMessage[1] ELSE cResult[1].error[1]

\* C14 as stated: a text with "429" or "rate" gets the rate-limited
\* message, and a text with "auth" or "401" gets the misconfiguration message.
C14_AsStated ==
  UpstreamClassified =>
    /\ OccursAny(cText, {"429", "rate"}) => ReturnedMessage = MsgRateLimited
    /\ OccursAny(cText, {"auth", "401"}) => ReturnedMessage = MsgMisconfigured

\* C14: a text with "429" or "rate" gets the rate-limited message; a text
\* with "auth" or "401" gets the misconfiguration message exactly when it
\* holds none of the triggers tested before (Rate, rate, 429, content,
\* safety, policy).
C14_RateThenAuth ==
  UpstreamClassified =>
    /\ OccursAny(cText, {"429", "rate"}) => ReturnedMessage = MsgRateLimited
    /\ OccursAny(cText, {"auth", "401"}) =>
         (ReturnedMessage = MsgMisconfigured
            <=> ~OccursAny(cText, {"Rate", "rate", "429", "content", "safety", "policy"}))

\* an error text with "auth" and "401" and no earlier trigger was classified
\* as misconfiguration by generateImages
C14_Witness ==
  /\ cOp = "generateImages"
  /\ UpstreamClassified
  /\ cText = "unauthorized 401"
  /\ ReturnedMessage = MsgMisconfigured

CategoryTriggers ==
  << {"Rate", "rate", "429"}, {"content", "safety", "policy"},
     {"API key", "not configured", "auth", "401"}, {"billing", "quota", "403"} >>

CategoryMessages ==
  <<MsgRateLimited, MsgContentRejected, MsgMisconfigured, MsgQuota>>

\* C15: friendlyError returns one of five distinct fixed messages: that of
\* the first category, in the order rate-limited, content, credentials,
\* quota, one of whose triggers occurs in the text, and the generic message
\* when no trigger occurs.
C15_FirstCategoryWins ==
  /\ Cardinality(ClientMessages) = 5
  /\ cOp = "friendlyError" =>
       /\ cMessage[1] \in ClientMessages
       /\ \A k \in 1..4 :
            (/\ OccursAny(cText, CategoryTriggers[k])
             /\ \A j \in 1..(k - 1) : ~OccursAny(cText, CategoryTriggers[j]))
            => cMessage[1] = CategoryMessages[k]
       /\ (\A k \in 1..4 : ~OccursAny(cText, CategoryTriggers[k]))
            => cMessage[1] = MsgGeneric

\* a text of the content and of the quota category got the content message
C15_Witness ==
  /\ cOp = "friendlyError"
  /\ cText = "quota policy"
  /\ cMessage = Some(MsgContentRejected)

\* ------------------------------------------------------------------------
\* The local store (services/database.ts)
\* ------------------------------------------------------------------------
\* A stored record: its key (id), its createdAt (missing in a record that
\* came from a foreign document) and the rest of its value.
Stored(id, createdAt, value) == [id |-> id, createdAt |-> createdAt, value |-> value]

\* db.put on a store with keyPath 'id': the record replaces the one of its key
put(store, record) == {r \in store : r.id # record.id} \cup {record}

RECURSIVE putAll(_, _)
\* for (const x of list) await tx.store.put(x)
putAll(store, list) ==
  IF Len(list) = 0 THEN store ELSE putAll(put(store, Head(list)), Tail(list))

\* the index 'by-created' holds the records that have a createdAt, in the
\* order of createdAt and, for equal createdAt, of the key
RECURSIVE byCreated(_)
byCreated(store) ==
  LET indexed == {r \in store : IsSome(r.createdAt)}
      first == CHOOSE r \in indexed :
                 \A q \in indexed \ {r} :
                    \/ r.createdAt[1] < q.createdAt[1]
                    \/ (r.createdAt[1] = q.createdAt[1] /\ r.id <= q.id)
  IN  IF indexed = {} THEN <<>>
      ELSE <<first>> \o byCreated(indexed \ {first})

reverse(list) == [i \in 1..Len(list) |-> list[Len(list) + 1 - i]]

getAllAnimals(animals) == reverse(byCreated(animals))

getAllScenes(scenes) == reverse(byCreated(scenes))

\* settings || DEFAULT_SETTINGS
getSettings(stored) == IF IsSome(stored) THEN stored[1] ELSE DEFAULT_SETTINGS

ExportData(animals, scenes, settingsOut) ==
  [version |-> 1, animals |-> animals, scenes |-> scenes, settings |-> settingsOut]

\* mutant: the settings are exported as they are stored
exportAllData_KeepsKey(animals, scenes, stored) ==
  ExportData(getAllAnimals(animals), getAllScenes(scenes), getSettings(stored))

\* the document of exportAllData (its exportedAt timestamp is left out)
exportAllData(animals, scenes, stored) ==
  ExportData(getAllAnimals(animals), getAllScenes(scenes),
             [getSettings(stored) EXCEPT !.openaiApiKey = None])

\* mutant: the scenes of the document are not imported
importAllData_AnimalsOnly(data, animals, scenes, stored) ==
  [animals |-> putAll(animals, data.animals),
   scenes |-> scenes,
   settings |-> Some([data.settings EXCEPT
                        !.openaiApiKey = getSettings(stored).openaiApiKey])]

\* the three stores after importAllData(data)
importAllData(data, animals, scenes, stored) ==
  [animals |-> putAll(animals, data.animals),
   scenes |-> putAll(scenes, data.scenes),
   settings |-> Some([data.settings EXCEPT
                        !.openaiApiKey = getSettings(stored).openaiApiKey])]

\* What JSON.parse hands to ParentMode.handleImportFile: each top-level
\* part is present or missing, and each list entry is a record together
\* with whether the store accepts it (a record without id, or one there
\* is no room for, is not accepted).
ParsedFile(animals, scenes, settingsIn) ==
  [animals |-> animals, scenes |-> scenes, settings |-> settingsIn]

FileEntry(record, storable) == [record |-> record, storable |-> storable]

Records(entries) == [i \in 1..Len(entries) |-> entries[i].record]

RECURSIVE putEach(_, _)
\* the loop of one transaction of importAllData: the store after the puts
\* made before the first record that is not accepted, and whether there
\* was such a record (store.put then throws and the loop is left)
putEach(store, entries) ==
  IF Len(entries) = 0 THEN [store |-> store, failed |-> FALSE]
  ELSE IF ~Head(entries).storable THEN [store |-> store, failed |-> TRUE]
  ELSE putEach(put(store, Head(entries).record), Tail(entries))

\* ParentMode.handleImportFile(file): the three stores afterwards and how
\* it ended. When a put fails, the puts made before it in the same
\* transaction are kept or rolled back, depending on why it failed (a
\* thrown DataError leaves the transaction to commit, a failed request
\* aborts it); the transaction of the animals is done before the scenes
\* are begun.
handleImportFile(file, animals, scenes, stored, rollback) ==
  LET a == putEach(animals, file.animals[1])
      s == putEach(scenes, file.scenes[1])
      done == importAllData(ExportData(Records(file.animals[1]),
                                       Records(file.scenes[1]), file.settings[1]),
                            animals, scenes, stored)
  IN  IF ~IsSome(file.animals) \/ ~IsSome(file.scenes) \/ ~IsSome(file.settings)
      THEN [animals |-> animals, scenes |-> scenes, settings |-> stored,
            outcome |-> "rejected"]
      ELSE IF a.failed
      THEN [animals |-> IF rollback THEN animals ELSE a.store,
            scenes |-> scenes, settings |-> stored, outcome |-> "failed"]
      ELSE IF s.failed
      THEN [animals |-> a.store,
            scenes |-> IF rollback THEN scenes ELSE s.store,
            settings |-> stored, outcome |-> "failed"]
      ELSE [animals |-> done.animals, scenes |-> done.scenes,
            settings |-> done.settings, outcome |-> "complete"]

\* the records the application and foreign documents can hold
StoreIds == 1..MaxStored

StoreTimes == {None} \cup {Some(t) : t \in 1..MaxTime}

AnimalRecords == {Stored(id, t, "Star") : id \in StoreIds, t \in StoreTimes}

SceneRecords == {Stored(1, t, <<1>>) : t \in StoreTimes}

Credentials == {None, Some("sk-stored")}

StoreSettings ==
  {[DEFAULT_SETTINGS EXCEPT !.openaiApiKey = k, !.extraGentleMode = g] :
     k \in Credentials, g \in BOOLEAN}

\* documents written elsewhere: any credential, records with or without
\* createdAt, an id possibly twice
ForeignDocuments ==
  {ExportData(<<Stored(1, None, "Star")>>, <<>>, DEFAULT_SETTINGS),
   ExportData(<<Stored(2, Some(1), "Star"), Stored(2, Some(2), "Star")>>,
              <<Stored(1, Some(1), <<1>>)>>,
              [DEFAULT_SETTINGS EXCEPT !.openaiApiKey = Some("sk-foreign")])}

StoreInit ==
  /\ FilterIdle
  /\ PromptIdle
  /\ ScreensIdle
  /\ GatewayIdle
  /\ ClientIdle
  /\ SessionIdle
  /\ dbAnimals = {}
  /\ dbScenes = {}
  /\ dbSettings \in {None} \cup {Some(x) : x \in {y \in StoreSettings : ~y.extraGentleMode}}
  /\ dbDoc = None
  /\ dbOp = NoOp

storeOther ==
  <<filterVars, promptVars, propVars, dreamVars, sceneVars, gatewayVars, clientVars,
    sessionVars>>

Op(name) == [NoOp EXCEPT !.name = name]

StoreSaveAnimal(record) ==
  /\ IsSome(record.createdAt)
  /\ dbAnimals' = put(dbAnimals, record)
  /\ dbOp' = Op("write")
  /\ UNCHANGED <<dbScenes, dbSettings, dbDoc, storeOther>>

StoreDeleteAnimal(id) ==
  /\ \E r \in dbAnimals : r.id = id
  /\ dbAnimals' = {r \in dbAnimals : r.id # id}
  /\ dbOp' = Op("write")
  /\ UNCHANGED <<dbScenes, dbSettings, dbDoc, storeOther>>

StoreSaveScene(record) ==
  /\ IsSome(record.createdAt)
  /\ dbScenes' = put(dbScenes, record)
  /\ dbOp' = Op("write")
  /\ UNCHANGED <<dbAnimals, dbSettings, dbDoc, storeOther>>

StoreDeleteScene(id) ==
  /\ \E r \in dbScenes : r.id = id
  /\ dbScenes' = {r \in dbScenes : r.id # id}
  /\ dbOp' = Op("write")
  /\ UNCHANGED <<dbAnimals, dbSettings, dbDoc, storeOther>>

\* ParentMode.handleSaveSettings: the stored settings with a new
\* extraGentleMode (the credential field is carried over)
StoreSaveSettings(gentle) ==
  /\ getSettings(dbSettings).extraGentleMode # gentle
  /\ dbSettings' = Some([getSettings(dbSettings) EXCEPT !.extraGentleMode = gentle])
  /\ dbOp' = Op("write")
  /\ UNCHANGED <<dbAnimals, dbScenes, dbDoc, storeOther>>

StoreExport ==
  /\ dbDoc' = Some(exportAllData(dbAnimals, dbScenes, dbSettings))
  /\ dbOp' = Op("exportAllData")
  /\ UNCHANGED <<dbAnimals, dbScenes, dbSettings, storeOther>>

StoreClearAll ==
  /\ dbAnimals' = {}
  /\ dbScenes' = {}
  /\ dbSettings' = None
  /\ dbOp' = Op("write")
  /\ UNCHANGED <<dbDoc, storeOther>>

StoreImport(data, exported) ==
  LET after == importAllData(data, dbAnimals, dbScenes, dbSettings)
  IN  /\ dbAnimals' = after.animals
      /\ dbScenes' = after.scenes
      /\ dbSettings' = after.settings
      /\ dbOp' = [name |-> "importAllData",
                  intoEmpty |-> dbAnimals = {} /\ dbScenes = {},
                  exported |-> exported,
                  key |-> data.settings.openaiApiKey]
      /\ UNCHANGED <<dbDoc, storeOther>>

\* a file is chosen in Parent Mode: handleImportFile as a whole
StoreHandleImportFile(file, rollback) ==
  LET after == handleImportFile(file, dbAnimals, dbScenes, dbSettings, rollback)
  IN  /\ dbAnimals' = after.animals
      /\ dbScenes' = after.scenes
      /\ dbSettings' = after.settings
      /\ dbOp' = Op(after.outcome)
      /\ UNCHANGED <<dbDoc, storeOther>>

\* the document of the latest export is imported
StoreImportExported ==
  /\ IsSome(dbDoc)
  /\ StoreImport(dbDoc[1], TRUE)

\* a document written elsewhere is imported
StoreImportForeign(data) == StoreImport(data, FALSE)

StoreNext ==
  \/ \E record \in AnimalRecords : StoreSaveAnimal(record)
  \/ \E id \in StoreIds : StoreDeleteAnimal(id)
  \/ \E record \in SceneRecords : StoreSaveScene(record)
  \/ \E id \in StoreIds : StoreDeleteScene(id)
  \/ \E gentle \in BOOLEAN : StoreSaveSettings(gentle)
  \/ StoreExport
  \/ StoreClearAll
  \/ StoreImportExported
  \/ \E data \in ForeignDocuments : StoreImportForeign(data)

SpecStore == StoreInit /\ [][StoreNext]_vars

\* ------------------------------------------------------------------------
\* Properties of the store
\* ------------------------------------------------------------------------
\* C17: after the latest export's document has been imported into a store
\* with no character and no scene, getAllAnimals and getAllScenes return
\* the document's lists: the same records, ids and field values, in the
\* same order.
C17_ExportImportRoundTrip ==
  (dbOp.name = "importAllData" /\ dbOp.exported /\ dbOp.intoEmpty) =>
    /\ getAllAnimals(dbAnimals) = dbDoc[1].animals
    /\ getAllScenes(dbScenes) = dbDoc[1].scenes

\* two characters and a scene have made the round trip
C17_Witness ==
  /\ dbOp.name = "importAllData"
  /\ dbOp.exported
  /\ dbOp.intoEmpty
  /\ Len(dbDoc[1].animals) = 2
  /\ Len(dbDoc[1].scenes) = 1
  /\ getAllAnimals(dbAnimals) = dbDoc[1].animals

StoredCredential == getSettings(dbSettings).openaiApiKey

ImportStep ==
  StoreImportExported \/ \E data \in ForeignDocuments : StoreImportForeign(data)

\* C18: the settings of an exported document never hold the credential,
\* and an import leaves the stored credential as it was, whatever
\* credential the imported document's settings hold.
C18_CredentialStaysHome ==
  /\ [](IsSome(dbDoc) => dbDoc[1].settings.openaiApiKey = None)
  /\ [][ImportStep => StoredCredential' = StoredCredential]_vars

\* a credential is stored, a document has been exported, and a foreign
\* document holding another credential has been imported
C18_Witness ==
  /\ IsSome(dbDoc)
  /\ dbOp.name = "importAllData"
  /\ dbOp.key = Some("sk-foreign")
  /\ StoredCredential = Some("sk-stored")

\* ------------------------------------------------------------------------
\* Parent Mode (ParentMode.tsx): settings and data management
\* ------------------------------------------------------------------------
\* settings as no screen of the application writes them
ForeignSettings == [DEFAULT_SETTINGS EXCEPT !.imageCount = 9, !.kidSafeMode = FALSE]

\* files chosen for import: one without scenes, one whose second character
\* is not accepted, one whose second scene is not accepted, and a complete
\* one with foreign settings
StoreFiles ==
  {ParsedFile(Some(<<FileEntry(Stored(1, Some(1), "Star"), TRUE)>>), None,
              Some(DEFAULT_SETTINGS)),
   ParsedFile(Some(<<FileEntry(Stored(1, Some(1), "Star"), TRUE),
                     FileEntry(Stored(2, Some(1), "Star"), FALSE)>>),
              Some(<<>>), Some(DEFAULT_SETTINGS)),
   ParsedFile(Some(<<FileEntry(Stored(2, Some(2), "Star"), TRUE)>>),
              Some(<<FileEntry(Stored(1, Some(1), <<1>>), TRUE),
                     FileEntry(Stored(1, Some(2), <<1>>), FALSE)>>),
              Some(DEFAULT_SETTINGS)),
   ParsedFile(Some(<<>>), Some(<<>>), Some(ForeignSettings))}

\* Parent Mode is open; the App's settings are those loadData read
ParentInit ==
  /\ FilterIdle
  /\ PromptIdle
  /\ DreamIdle
  /\ SceneIdle
  /\ GatewayIdle
  /\ ClientIdle
  /\ dbAnimals \in {{}, {Stored(1, Some(1), "Star")}}
  /\ dbScenes = {}
  /\ dbSettings \in {None} \cup {Some(x) : x \in {y \in StoreSettings : ~y.extraGentleMode}}
  /\ dbDoc = None
  /\ dbOp = NoOp
  /\ settings = getSettings(dbSettings)
  /\ transcripts = 0
  /\ aPage = "parent-mode"
  /\ aAnimals = <<>>
  /\ aScenes = <<>>
  /\ aSelectedSceneId = None
  /\ aCreated = 0
  /\ ViewerIdle
  /\ SpeechIdle

\* handleSaveSettings with the count button and the checkbox as they are
\* set; onUpdateSettings is App.handleUpdateSettings
ParentHandleSaveSettings(imageCount, extraGentleMode) ==
  LET newSettings == [settings EXCEPT !.imageCount = imageCount,
                                      !.extraGentleMode = extraGentleMode]
  IN  /\ aPage = "parent-mode"
      /\ dbSettings' = Some(newSettings)
      /\ settings' = newSettings
      /\ dbOp' = Op("write")
      /\ UNCHANGED <<dbAnimals, dbScenes, dbDoc, transcripts, filterVars,
                     promptVars, dreamVars, sceneVars, gatewayVars, clientVars,
                     sessionVars>>

ParentNext ==
  \/ \E imageCount \in {1, 2, 3, 4}, extraGentleMode \in BOOLEAN :
        ParentHandleSaveSettings(imageCount, extraGentleMode)
  \/ \E file \in StoreFiles, rollback \in BOOLEAN : StoreHandleImportFile(file, rollback)
  \/ StoreClearAll

SpecParent == ParentInit /\ [][ParentNext]_vars

\* C22: in every state of the store the settings in force (the stored
\* record, or the defaults when there is none) have an image count between
\* 1 and 4 and the kid-safe-mode flag on.
C22_StoredSettingsInRange ==
  /\ getSettings(dbSettings).imageCount \in 1..4
  /\ getSettings(dbSettings).kidSafeMode

ImportFileEnds(outcomes) ==
  \E file \in StoreFiles, rollback \in BOOLEAN :
     StoreHandleImportFile(file, rollback) /\ dbOp'.name \in outcomes

\* C24: an import that is rejected as invalid format, or that fails at a
\* record the store does not accept, leaves the stored characters, scenes
\* and settings exactly as they were before it started.
C24_FailedImportChangesNothing ==
  [][ImportFileEnds({"rejected", "failed"}) =>
       UNCHANGED <<dbAnimals, dbScenes, dbSettings>>]_vars

\* ------------------------------------------------------------------------
\* The Generation Gateway (api/generate-image.ts, the version with
\* reference-image support)
\* ------------------------------------------------------------------------
HttpResponse(status, body) == [status |-> status, body |-> body]

ErrorBody(error) == [error |-> Some(error), images |-> None]

ProviderResult(success, images, error) ==
  [success |-> success, images |-> images, error |-> error]

\* JSON.stringify(result)
ResultBody(result) == [error |-> result.error, images |-> result.images]

RefImages(r) == [i \in 1..r |-> "data:reference" \o ToString(i)]

\* const { prompt, count = 1, referenceImages = [] } = await request.json()
GatewayBodies ==
  {[prompt |-> p, count |-> c, referenceImages |-> RefImages(r)] :
     p \in {"", "a pony in a meadow"},
     c \in {None} \cup {Some(k) : k \in 0..MaxRequestCount},
     r \in 0..MaxRefs}

GatewayRequests ==
  {[method |-> m, body |-> b] :
     m \in {"POST", "GET"}, b \in {None} \cup {Some(x) : x \in GatewayBodies}}

MaxGatewayCount == 4

\* Math.min(count, 4), count defaulting to 1
effectiveCount(body) ==
  Min(IF IsSome(body.count) THEN body.count[1] ELSE 1, MaxGatewayCount)

\* mutant: the body is read and the prompt checked before the credentials
earlyResponse_PromptFirst(request, keys) ==
  IF request.method # "POST"
  THEN Some(HttpResponse(405, ErrorBody("Method not allowed")))
  ELSE IF ~IsSome(request.body)
  THEN Some(HttpResponse(500, ErrorBody("Server error")))
  ELSE IF request.body[1].prompt = ""
  THEN Some(HttpResponse(400, ErrorBody("Prompt is required")))
  ELSE IF ~keys.openai /\ ~keys.gemini
  THEN Some(HttpResponse(500, ErrorBody("No API key configured")))
  ELSE None

\* The returns of the handler before any provider is chosen: wrong method,
\* no credential, a body that request.json() cannot parse (caught by the
\* handler's catch), a missing prompt. None when the handler goes on.
earlyResponse(request, keys) ==
  IF request.method # "POST"
  THEN Some(HttpResponse(405, ErrorBody("Method not allowed")))
  ELSE IF ~keys.openai /\ ~keys.gemini
  THEN Some(HttpResponse(500, ErrorBody("No API key configured")))
  ELSE IF ~IsSome(request.body)
  THEN Some(HttpResponse(500, ErrorBody("Server error")))
  ELSE IF request.body[1].prompt = ""
  THEN Some(HttpResponse(400, ErrorBody("Prompt is required")))
  ELSE None

\* mutant: Gemini is tried first whenever its key is set (the order of the
\* gateway version without reference-image support)
nextStep_GeminiFirst(after, keys, body) ==
  IF after = "start" /\ keys.gemini THEN "gemini"
  ELSE IF after \in {"start", "gemini"} /\ Len(body.referenceImages) > 0 /\ keys.openai
  THEN "vision"
  ELSE IF keys.openai THEN "dalle"
  ELSE "none"

\* The provider function the handler calls next: at the start, or after the
\* vision or the Gemini attempt has failed. "none" when it falls off the
\* last if.
nextStep(after, keys, body) ==
  IF after = "start" /\ Len(body.referenceImages) > 0 /\ keys.openai THEN "vision"
  ELSE IF after \in {"start", "vision"} /\ keys.gemini
          /\ Len(body.referenceImages) = 0
  THEN "gemini"
  ELSE IF keys.openai THEN "dalle"
  ELSE "none"

ProviderSteps == {"vision", "gemini", "dalle"}

\* the error a provider function returns for a response that is not ok
providerError(step, status) ==
  CASE step = "vision" -> "GPT-Image error: " \o ToString(status)
    [] step = "gemini" -> IF status = 429 THEN "Rate limited"
                          ELSE "Gemini error: " \o ToString(status)
    [] step = "dalle" -> IF status = 401 THEN "Invalid API key"
                         ELSE IF status = 429 THEN "Rate limited"
                         ELSE "OpenAI error: " \o ToString(status)

\* the error a provider function returns when its fetch throws
connectionError(step) ==
  IF step = "gemini" THEN "Gemini connection failed" ELSE "OpenAI connection failed"

\* the JSON body a provider function sends with its fetch
providerPayload(step, prompt, referenceImages) ==
  CASE step = "vision" ->
         [url |-> "https://api.openai.com/v1/images/generations",
          model |-> "gpt-image-1", prompt |-> prompt, n |-> 1, images |-> <<>>]
    [] step = "gemini" ->
         [url |-> "https://generativelanguage.googleapis.com/...:generateContent",
          model |-> "gemini-2.0-flash-exp",
          prompt |-> "Generate an image: " \o prompt, n |-> 1, images |-> <<>>]
    [] step = "dalle" ->
         [url |-> "https://api.openai.com/v1/images/generations",
          model |-> "dall-e-3", prompt |-> prompt, n |-> 1, images |-> <<>>]

\* what one fetch of a provider can come back with: an image inline, an
\* image by URL that is then downloaded or kept as a URL (GPT-Image only),
\* an ok response without an image, a status that is not ok, a thrown error
ProviderStatuses == {401, 429, 500}

FetchOutcomes(step) ==
  {[kind |-> "image", status |-> 200], [kind |-> "empty", status |-> 200],
   [kind |-> "throw", status |-> 0]}
  \cup {[kind |-> "status", status |-> st] : st \in ProviderStatuses}
  \cup (IF step = "vision"
        THEN {[kind |-> "downloaded", status |-> 200], [kind |-> "url", status |-> 200]}
        ELSE {})

Attempt(step, result) == [step |-> step, result |-> result]

\* mutant: the DALL-E result is always answered with status 200
dalleStatus_Always200(result) == 200

\* status: result.success ? 200 : 400
dalleStatus(result) == IF result.success THEN 200 ELSE 400

GatewayInit ==
  /\ FilterIdle
  /\ PromptIdle
  /\ ScreensIdle
  /\ RestIdle
  /\ gwKeys \in [openai : BOOLEAN, gemini : BOOLEAN]
  /\ gwRequest \in GatewayRequests
  /\ gwPc = "idle"
  /\ gwI = 0
  /\ gwImages = <<>>
  /\ gwAttempts = <<>>
  /\ gwCalls = NoCalls
  /\ gwLastCall = None
  /\ gwAwait = FALSE
  /\ gwInFlight = 0
  /\ gwResponse = None
  /\ gwLastOutcome = None

gatewayOther == <<filterVars, promptVars, propVars, dreamVars, sceneVars, restVars>>

\* the handler calls the provider function next, or answers 500 when no
\* provider is left; closed is the list of the attempts finished so far
GwEnter(next, closed) ==
  IF next = "none"
  THEN /\ gwPc' = "done"
       /\ gwResponse' = Some(HttpResponse(500, ErrorBody("Image generation failed")))
       /\ gwAttempts' = closed
       /\ UNCHANGED <<gwI, gwImages>>
  ELSE /\ gwPc' = next
       /\ gwI' = 0
       /\ gwImages' = <<>>
       /\ gwAttempts' = Append(closed, Attempt(next, None))
       /\ UNCHANGED gwResponse

\* the handler from its entry to its first await of a provider function
GwHandle ==
  /\ gwPc = "idle"
  /\ IF IsSome(earlyResponse(gwRequest, gwKeys))
     THEN /\ gwPc' = "done"
          /\ gwResponse' = earlyResponse(gwRequest, gwKeys)
          /\ UNCHANGED <<gwI, gwImages, gwAttempts>>
     ELSE GwEnter(nextStep("start", gwKeys, gwRequest.body[1]), gwAttempts)
  /\ UNCHANGED <<gwKeys, gwRequest, gwCalls, gwLastCall, gwAwait, gwInFlight,
                 gwLastOutcome, gatewayOther>>

\* the provider function gwPc has returned result: the handler answers
\* with it or falls through to the next provider
GwReturn(result, images) ==
  LET closed == [gwAttempts EXCEPT ![Len(gwAttempts)].result = Some(result)]
  IN  IF gwPc = "dalle" \/ result.success
      THEN /\ gwPc' = "done"
           /\ gwResponse' = Some(HttpResponse(
                                   IF gwPc = "dalle" THEN dalleStatus(result) ELSE 200,
                                   ResultBody(result)))
           /\ gwAttempts' = closed
           /\ gwImages' = images
           /\ UNCHANGED gwI
      ELSE GwEnter(nextStep(gwPc, gwKeys, gwRequest.body[1]), closed)

\* the top of the provider function's loop body: the fetch is issued and
\* the function is suspended until it is answered
GwProviderRequest ==
  /\ gwPc \in ProviderSteps
  /\ ~gwAwait
  /\ gwI < effectiveCount(gwRequest.body[1])
  /\ gwAwait' = TRUE
  /\ gwInFlight' = gwInFlight + 1
  /\ gwCalls' = [gwCalls EXCEPT ![gwPc] = @ + 1]
  /\ gwLastCall' = Some(providerPayload(gwPc, gwRequest.body[1].prompt,
                                        gwRequest.body[1].referenceImages))
  /\ UNCHANGED <<gwKeys, gwRequest, gwPc, gwI, gwImages, gwAttempts, gwResponse,
                 gwLastOutcome, gatewayOther>>

\* mutant: a failed attempt hands back the images it had collected
failureResult_KeepsImages(error, images) ==
  ProviderResult(FALSE, IF Len(images) > 0 THEN Some(images) ELSE None, Some(error))

\* return { success: false, error }: the images array is dropped
failureResult(error, images) == ProviderResult(FALSE, None, Some(error))

\* the fetch is answered and the loop body runs to its end: an error return,
\* or the image (if any) is pushed and the loop goes on
GwProviderResponse(outcome) ==
  /\ gwPc \in ProviderSteps
  /\ gwAwait
  /\ outcome \in FetchOutcomes(gwPc)
  /\ gwAwait' = FALSE
  /\ gwInFlight' = gwInFlight - 1
  /\ gwLastOutcome' = Some(outcome)
  /\ gwCalls' = [gwCalls EXCEPT
                   !.download = IF outcome.kind \in {"downloaded", "url"}
                                THEN @ + 1 ELSE @]
  /\ CASE outcome.kind = "status" ->
            GwReturn(failureResult(providerError(gwPc, outcome.status), gwImages),
                     gwImages)
       [] outcome.kind = "throw" ->
            GwReturn(failureResult(connectionError(gwPc), gwImages), gwImages)
       [] outcome.kind = "empty" ->
            /\ gwI' = gwI + 1
            /\ UNCHANGED <<gwPc, gwImages, gwAttempts, gwResponse>>
       [] OTHER ->
            /\ gwI' = gwI + 1
            /\ gwImages' = Append(gwImages,
                                  [from |-> gwPc, i |-> gwI, as |-> outcome.kind])
            /\ UNCHANGED <<gwPc, gwAttempts, gwResponse>>
  /\ UNCHANGED <<gwKeys, gwRequest, gwLastCall, gatewayOther>>

\* the loop of the provider function is over: it returns its images, or
\* "No images generated" when it has none
GwProviderDone ==
  /\ gwPc \in ProviderSteps
  /\ ~gwAwait
  /\ gwI >= effectiveCount(gwRequest.body[1])
  /\ IF Len(gwImages) = 0
     THEN GwReturn(failureResult("No images generated", gwImages), gwImages)
     ELSE GwReturn(ProviderResult(TRUE, Some(gwImages), None), gwImages)
  /\ UNCHANGED <<gwKeys, gwRequest, gwCalls, gwLastCall, gwAwait, gwInFlight,
                 gwLastOutcome, gatewayOther>>

\* the client's fetch of /api/generate-image resolves with the handler's
\* response, and generateImages returns
GwClientReceive ==
  /\ gwPc = "done"
  /\ cOp = "none"
  /\ cOp' = "generateImages"
  /\ cResponse' = Some(FetchResult("json", gwResponse[1].status,
                                   gwResponse[1].body.error,
                                   gwResponse[1].body.images))
  /\ cResult' = Some(generateImages(cResponse'[1]))
  /\ UNCHANGED <<cText, cMessage, gatewayVars, filterVars, promptVars, propVars,
                 dreamVars, sceneVars, storeVars, sessionVars>>

GatewayNext ==
  \/ GwHandle
  \/ GwClientReceive
  \/ GwProviderRequest
  \/ \E outcome \in UNION {FetchOutcomes(st) : st \in ProviderSteps} :
       GwProviderResponse(outcome)
  \/ GwProviderDone

SpecGateway == GatewayInit /\ [][GatewayNext]_vars

\* ------------------------------------------------------------------------
\* Properties of the gateway
\* ------------------------------------------------------------------------
StepsAttempted == [k \in 1..Len(gwAttempts) |-> gwAttempts[k].step]

HasReferences == IsSome(gwRequest.body) /\ Len(gwRequest.body[1].referenceImages) > 0

AttemptFailed(k) ==
  IsSome(gwAttempts[k].result) /\ ~gwAttempts[k].result[1].success

C9_NoRetryDalleFinal ==
  /\ \A j, k \in 1..Len(gwAttempts) :
       gwAttempts[j].step = gwAttempts[k].step => j = k
  /\ ~(\E j, k \in 1..Len(gwAttempts) :
         gwAttempts[j].step = "vision" /\ gwAttempts[k].step = "gemini")
  /\ \A k \in 1..Len(gwAttempts) :
       gwAttempts[k].step = "dalle" =>
         /\ gwKeys.openai
         /\ k = Len(gwAttempts)
         /\ \A j \in 1..(k - 1) : AttemptFailed(j)
  /\ (gwPc = "done" /\ Len(gwAttempts) > 0
      /\ gwAttempts[Len(gwAttempts)].step = "dalle") =>
       LET result == gwAttempts[Len(gwAttempts)].result[1]
       IN  /\ IsSome(gwResponse)
           /\ IF result.success
              THEN /\ gwResponse[1].status = 200
                   /\ gwResponse[1].body.images = result.images
                   /\ IsSome(result.images) /\ Len(result.images[1]) > 0
              ELSE /\ gwResponse[1].status \notin 200..299
                   /\ gwResponse[1].body.error = result.error
                   /\ IsSome(result.error)

\* a failed first attempt, then DALL-E answered: once with images, once
\* with its error
C9_Witness ==
  /\ gwPc = "done"
  /\ StepsAttempted = <<"gemini", "dalle">>
  /\ AttemptFailed(1)
  /\ gwAttempts[2].result[1].success
  /\ gwResponse[1].status = 200
  /\ Len(gwResponse[1].body.images[1]) = 2

\* C10: with neither key set, a POST is answered at once with status 500
\* and "No API key configured", no provider function is called and no
\* fetch is made, whatever the body is.
C10_NoKeysNoCalls ==
  (~gwKeys.openai /\ ~gwKeys.gemini /\ gwRequest.method = "POST") =>
    /\ gwPc \in {"idle", "done"}
    /\ gwAttempts = <<>>
    /\ gwCalls = NoCalls
    /\ gwLastCall = None
    /\ gwPc = "done" =>
         gwResponse = Some(HttpResponse(500, ErrorBody("No API key configured")))

\* no key, and a POST that names a prompt and carries reference images,
\* answered
C10_Witness ==
  /\ ~gwKeys.openai
  /\ ~gwKeys.gemini
  /\ gwRequest.method = "POST"
  /\ IsSome(gwRequest.body)
  /\ gwRequest.body[1].prompt # ""
  /\ HasReferences
  /\ gwPc = "done"
  /\ gwResponse = Some(HttpResponse(500, ErrorBody("No API key configured")))

C12_SequentialAllOrNothing ==
  /\ gwInFlight \in {0, 1}
  /\ IsSome(gwRequest.body) =>
       \A st \in ProviderSteps : gwCalls[st] <= effectiveCount(gwRequest.body[1])
  /\ \A k \in 1..Len(gwAttempts) :
       AttemptFailed(k) =>
         /\ gwAttempts[k].result[1].images = None
         /\ (gwPc # gwAttempts[k].step) \/ gwPc = "done"
  /\ (gwPc = "done" /\ Len(gwAttempts) > 0) => gwInFlight = 0
  /\ (IsSome(gwResponse) /\ IsSome(gwResponse[1].body.images)) =>
       LET last == gwAttempts[Len(gwAttempts)]
           images == gwResponse[1].body.images[1]
       IN  /\ gwResponse[1].status = 200
           /\ last.result[1].success
           /\ Len(images) \in 1..effectiveCount(gwRequest.body[1])
           /\ \A j \in 1..Len(images) : images[j].from = last.step
  /\ (IsSome(gwResponse) /\ gwResponse[1].status # 200) =>
       gwResponse[1].body.images = None

\* the vision attempt collected an image and then failed on its second
\* fetch; DALL-E then delivered all three images that the response carries
C12_Witness ==
  /\ gwPc = "done"
  /\ StepsAttempted = <<"vision", "dalle">>
  /\ gwCalls.vision = 2
  /\ gwCalls.dalle = 3
  /\ AttemptFailed(1)
  /\ gwResponse[1].status = 200
  /\ Len(gwResponse[1].body.images[1]) = 3

\* C16: when the request has failed and the last provider fetch was
\* answered 429, the client's error is the rate-limited message; when it
\* was answered 401, the misconfiguration message.
C16_ProviderClassSurfaced ==
  (/\ cOp = "generateImages"
   /\ ~cResult[1].success
   /\ IsSome(gwLastOutcome)
   /\ gwLastOutcome[1].kind = "status") =>
    /\ gwLastOutcome[1].status = 429 => cResult[1].error = Some(MsgRateLimited)
    /\ gwLastOutcome[1].status = 401 => cResult[1].error = Some(MsgMisconfigured)

\* a provider fetch of this gateway call was answered with HTTP 429 (the
\* answer ends its provider function with the error of that status)
Answered429 ==
  \E k \in 1..Len(gwAttempts) :
     /\ IsSome(gwAttempts[k].result)
     /\ gwAttempts[k].result[1].error = Some(providerError(gwAttempts[k].step, 429))

\* C27: the client returns the rate-limited message only when a provider
\* fetch of the gateway call was answered with HTTP 429; every other
\* failure of the gateway is reported with another message.
C27_RateLimitedOnlyAfter429 ==
  (cOp = "generateImages" /\ cResult[1].error = Some(MsgRateLimited)) => Answered429

\* C28: a POST request with a non-empty prompt, handled with at least one
\* provider credential configured, is answered with a failure only after
\* at least one provider function has been called.
C28_AttemptBeforeFailure ==
  (/\ gwPc = "done"
   /\ gwRequest.method = "POST"
   /\ IsSome(gwRequest.body)
   /\ gwRequest.body[1].prompt # ""
   /\ (gwKeys.openai \/ gwKeys.gemini)
   /\ gwResponse[1].status # 200) => Len(gwAttempts) >= 1

\* ------------------------------------------------------------------------
\* The App component (App.tsx): pages, the copies held in memory, and the
\* handlers that write to the store
\* ------------------------------------------------------------------------
MaxCreated == 1

Values(list) == [i \in 1..Len(list) |-> list[i].value]

\* the store of a stable of n characters, created one after the other
StableStore(n) == {Stored(StableAnimal(i).id, Some(i), StableAnimal(i)) : i \in 1..n}

\* Date.now() at the next creation, and the uuid of the object created
Now == MaxAnimals + aCreated + 1

NewId(kind) == kind \o ToString(aCreated + 1)

\* a document with one more character, written by another installation
AppFiles ==
  {ParsedFile(Some(<<FileEntry(Stored("9", Some(0), StableAnimal(9)), TRUE)>>),
              Some(<<>>), Some(DEFAULT_SETTINGS))}

\* the state once loadData has run: memory holds what the store returned
AppInit ==
  /\ FilterIdle
  /\ PromptIdle
  /\ ScreensIdle
  /\ GatewayIdle
  /\ ClientIdle
  /\ dbAnimals \in {StableStore(n) : n \in 0..MaxAnimals}
  /\ dbScenes = {}
  /\ dbSettings = None
  /\ dbDoc = None
  /\ dbOp = NoOp
  /\ aPage = "home"
  /\ aAnimals = Values(getAllAnimals(dbAnimals))
  /\ aScenes = Values(getAllScenes(dbScenes))
  /\ aSelectedSceneId = None
  /\ aCreated = 0
  /\ ViewerIdle
  /\ SpeechIdle

appOther ==
  <<filterVars, promptVars, dreamVars, gatewayVars, clientVars, viewerVars,
    speechVars>>

\* where navigateTo can be called from the current page: the header's logo
\* (parent mode) and back button, and the buttons of the page itself
NavigationTargets ==
  {"parent-mode"} \cup
  (CASE aPage = "home" -> {"animals", "scene-maker", "storybook"}
     [] aPage = "animals" -> {"dream-animal", "toy-animal", "home"}
     [] aPage \in {"dream-animal", "toy-animal"} -> {"animals"}
     [] aPage = "scene-maker" ->
          {"home"} \cup (IF Len(aAnimals) = 0 THEN {"animals"} ELSE {})
     [] aPage = "storybook" -> {"scene-maker", "home"}
     [] aPage = "scene-viewer" -> {"storybook"}
     [] OTHER -> {"home"})

\* the scene maker is rendered on its page only: it is mounted with the
\* animals in memory, and unmounted when the page changes (the answer to a
\* call of an unmounted screen changes nothing and is forgotten)
SceneMakerFollows(page) ==
  IF aPage = "scene-maker" /\ page # "scene-maker"
  THEN /\ SceneDiscardState
       /\ sAnimals' = <<>>
       /\ sRequest' = None
  ELSE IF aPage # "scene-maker" /\ page = "scene-maker"
  THEN /\ sMounted' = TRUE
       /\ sAnimals' = aAnimals
       /\ UNCHANGED <<sStep, sSelectedAnimalIds, sLocation, sDescription,
                      sGeneratedImages, sPromptUsed, sSelectedImageIndex,
                      sError, sIsGenerating, sRequest, sListening>>
  ELSE UNCHANGED <<sMounted, sAnimals, sStep, sSelectedAnimalIds, sLocation,
                   sDescription, sGeneratedImages, sPromptUsed,
                   sSelectedImageIndex, sError, sIsGenerating, sRequest,
                   sListening>>

\* navigateTo(page)
AppNavigateTo(page) ==
  /\ page \in NavigationTargets \ {aPage}
  /\ aPage' = page
  /\ aSelectedSceneId' = None
  /\ SceneMakerFollows(page)
  /\ UNCHANGED <<aAnimals, aScenes, aCreated, sSaved, propVars, storeVars, appOther>>

\* handleSaveAnimal(animal), called by the dream-animal and the toy form
AppHandleSaveAnimal ==
  /\ aPage \in {"dream-animal", "toy-animal"}
  /\ aCreated < MaxCreated
  /\ LET animal == IF aPage = "dream-animal"
                   THEN dreamAnimalToSave(NewId("animal"), Star, <<>>, <<>>, None)
                   ELSE toyAnimalToSave(NewId("animal"), Star, <<>>, "data:sticker")
     IN  /\ dbAnimals' = put(dbAnimals, Stored(animal.id, Some(Now), animal))
         /\ aAnimals' = <<animal>> \o SelectSeq(aAnimals, LAMBDA a : a.id # animal.id)
  /\ dbOp' = Op("write")
  /\ aCreated' = aCreated + 1
  /\ aPage' = "animals"
  /\ aSelectedSceneId' = None
  /\ UNCHANGED <<aScenes, dbScenes, dbSettings, dbDoc, sceneVars, propVars, appOther>>

\* handleDeleteAnimal(id), from a card of the animals page
AppHandleDeleteAnimal(id) ==
  /\ aPage = "animals"
  /\ \E i \in 1..Len(aAnimals) : aAnimals[i].id = id
  /\ dbAnimals' = {r \in dbAnimals : r.id # id}
  /\ aAnimals' = SelectSeq(aAnimals, LAMBDA a : a.id # id)
  /\ dbOp' = Op("write")
  /\ UNCHANGED <<aPage, aScenes, aSelectedSceneId, aCreated, dbScenes, dbSettings,
                 dbDoc, sceneVars, propVars, appOther>>

\* SceneMaker.handleSave, whose onSave is handleSaveScene(scene)
AppHandleSaveScene ==
  /\ aPage = "scene-maker"
  /\ aCreated < MaxCreated
  /\ handleSave(NewId("scene"))
  /\ sAnimals' = <<>>
  /\ dbScenes' = put(dbScenes, Stored(sSaved'[1].id, Some(Now), sSaved'[1]))
  /\ aScenes' = <<sSaved'[1]>> \o SelectSeq(aScenes, LAMBDA x : x.id # sSaved'[1].id)
  /\ dbOp' = Op("write")
  /\ aCreated' = aCreated + 1
  /\ aPage' = "storybook"
  /\ aSelectedSceneId' = None
  /\ UNCHANGED <<aAnimals, dbAnimals, dbSettings, dbDoc, sRequest, propVars, appOther>>

\* Parent Mode: "Clear All Data" (both confirmations accepted); the copies
\* in memory stay as they are
ParentHandleClearAll ==
  /\ aPage = "parent-mode"
  /\ StoreClearAll

\* Parent Mode: a file is chosen for import; the copies in memory stay as
\* they are
ParentHandleImportFile(file, rollback) ==
  /\ aPage = "parent-mode"
  /\ StoreHandleImportFile(file, rollback)

\* the scene maker while its page is shown
AppSceneMaker ==
  \/ \E i \in 1..Len(sAnimals) : SceneToggleAnimal(sAnimals[i].id)
  \/ SceneNextStep
  \/ SceneSetDescription(Play)
  \/ SceneHandleGenerate
  \/ \E result \in GenerationResults(settings.imageCount) : SceneGenerateResponse(result)
  \/ \E index \in 0..3 : ScenePickImage(index)

AppNext ==
  \/ \E page \in NavigationTargets : AppNavigateTo(page)
  \/ AppHandleSaveAnimal
  \/ \E i \in 1..Len(aAnimals) : AppHandleDeleteAnimal(aAnimals[i].id)
  \/ AppHandleSaveScene
  \/ ParentHandleClearAll
  \/ \E file \in AppFiles, rollback \in BOOLEAN : ParentHandleImportFile(file, rollback)
  \/ AppSceneMaker

SpecApp == AppInit /\ [][AppNext]_vars

\* ------------------------------------------------------------------------
\* Properties of the App
\* ------------------------------------------------------------------------
StoredAnimalIds == {r.id : r \in dbAnimals}

\* C21: when a scene is saved, every id in its animalIds is the id of a
\* character that is in the store at that moment.
C21_SavedSceneAnimalsStored ==
  [][AppHandleSaveScene =>
       \A i \in 1..Len(sSaved'[1].animalIds) :
          sSaved'[1].animalIds[i] \in StoredAnimalIds']_vars

\* ------------------------------------------------------------------------
\* The SceneViewer screen (SceneViewer.tsx) with App.handleUpdateScene and
\* the recorder (utils/audioRecording.ts)
\* ------------------------------------------------------------------------
MaxRecordings == 2

OldCaption == <<"O","l","d">>

NewCaption == <<"N","e","w">>

\* a scene of the storybook as SceneMaker saved it, with the two fields
\* the viewer can set
StoryScene(caption, voiceNoteDataUrl) ==
  [id |-> "scene1", title |-> <<Star>>, location |-> "Meadow",
   animalIds |-> <<"1">>, userDescription |-> Play,
   imageDataUrls |-> Images(1), chosenImageDataUrl |-> Some(Images(1)[1]),
   caption |-> caption, voiceNoteDataUrl |-> voiceNoteDataUrl]

\* the storybook is open on a stored scene; memory holds what loadData read
ViewerInit ==
  /\ FilterIdle
  /\ PromptIdle
  /\ ScreensIdle
  /\ GatewayIdle
  /\ ClientIdle
  /\ dbAnimals = {}
  /\ dbScenes \in {{Stored("scene1", Some(1), StoryScene(c, v))} :
                     c \in {None, Some(OldCaption)}, v \in {None, Some("data:audio0")}}
  /\ dbSettings = None
  /\ dbDoc = None
  /\ dbOp = NoOp
  /\ aPage = "storybook"
  /\ aAnimals = <<>>
  /\ aScenes = Values(getAllScenes(dbScenes))
  /\ aSelectedSceneId = None
  /\ aCreated = 0
  /\ ViewerIdle
  /\ SpeechIdle

viewerOther ==
  <<filterVars, promptVars, propVars, dreamVars, sceneVars, gatewayVars, clientVars,
    dbAnimals, dbSettings, dbDoc, aAnimals, aCreated, speechVars>>

ViewerMounted == aPage = "scene-viewer" /\ IsSome(aSelectedSceneId)

\* the scene prop: scenes.find(s => s.id === selectedSceneId)
selectedScene ==
  LET found == SelectSeq(aScenes, LAMBDA x : x.id = aSelectedSceneId[1])
  IN  found[1]

\* handleUpdateScene(scene): saveScene, then the copy in memory is replaced
handleUpdateScene(scene) ==
  /\ dbScenes' = {IF r.id = scene.id THEN [r EXCEPT !.value = scene] ELSE r :
                    r \in dbScenes}
  /\ aScenes' = [i \in 1..Len(aScenes) |->
                   IF aScenes[i].id = scene.id THEN scene ELSE aScenes[i]]
  /\ dbOp' = Op("write")

\* handleViewScene(scene) from a card of the storybook: the viewer mounts
\* with useState(scene.caption || '') and useState(scene.voiceNoteDataUrl || null)
AppHandleViewScene(i) ==
  /\ aPage = "storybook"
  /\ i \in 1..Len(aScenes)
  /\ aSelectedSceneId' = Some(aScenes[i].id)
  /\ aPage' = "scene-viewer"
  /\ vCaption' = IF IsSome(aScenes[i].caption) THEN aScenes[i].caption[1] ELSE <<>>
  /\ vEditing' = FALSE
  /\ vVoiceNote' = aScenes[i].voiceNoteDataUrl
  /\ vRecording' = FALSE
  /\ UNCHANGED <<vStopping, vMediaRecorder, vRecorded, vOverlap, aScenes, dbScenes,
                 dbOp, viewerOther>>

\* onClose or the header's back button: the viewer unmounts; a suspended
\* handleStopRecording goes on without it
ViewerClose ==
  /\ ViewerMounted
  /\ aPage' = "storybook"
  /\ aSelectedSceneId' = None
  /\ vCaption' = <<>>
  /\ vEditing' = FALSE
  /\ vVoiceNote' = None
  /\ vRecording' = FALSE
  /\ vStopping' = IF IsSome(vStopping)
                  THEN Some([vStopping[1] EXCEPT !.mounted = FALSE]) ELSE None
  /\ UNCHANGED <<vMediaRecorder, vRecorded, vOverlap, aScenes, dbScenes, dbOp,
                 viewerOther>>

\* the caption display is tapped
ViewerEditCaption ==
  /\ ViewerMounted
  /\ ~vEditing
  /\ vEditing' = TRUE
  /\ UNCHANGED <<vCaption, vVoiceNote, vRecording, vStopping, vMediaRecorder,
                 vRecorded, vOverlap, aPage, aSelectedSceneId, aScenes, dbScenes,
                 dbOp, viewerOther>>

\* <textarea maxLength={500}> onChange={(e) => setCaption(e.target.value)}
ViewerSetCaption(t) ==
  /\ ViewerMounted
  /\ vEditing
  /\ Len(t) <= 500
  /\ vCaption' = t
  /\ UNCHANGED <<vEditing, vVoiceNote, vRecording, vStopping, vMediaRecorder,
                 vRecorded, vOverlap, aPage, aSelectedSceneId, aScenes, dbScenes,
                 dbOp, viewerOther>>

\* "Cancel" of the caption editor
ViewerCancelCaption ==
  /\ ViewerMounted
  /\ vEditing
  /\ vCaption' = IF IsSome(selectedScene.caption) THEN selectedScene.caption[1] ELSE <<>>
  /\ vEditing' = FALSE
  /\ UNCHANGED <<vVoiceNote, vRecording, vStopping, vMediaRecorder, vRecorded,
                 vOverlap, aPage, aSelectedSceneId, aScenes, dbScenes, dbOp,
                 viewerOther>>

\* handleSaveCaption: { ...scene, caption: caption.trim() || undefined }
ViewerHandleSaveCaption ==
  /\ ViewerMounted
  /\ vEditing
  /\ LET updatedScene == [selectedScene EXCEPT
                            !.caption = TextOrUndefined(trim(vCaption))]
     IN  /\ handleUpdateScene(updatedScene)
         /\ vOverlap' = IF IsSome(vStopping) /\ vStopping[1].mounted
                        THEN [phase |-> "caption saved",
                              caption |-> updatedScene.caption, voiceNote |-> None]
                        ELSE NoOverlap
  /\ vEditing' = FALSE
  /\ UNCHANGED <<vCaption, vVoiceNote, vRecording, vStopping, vMediaRecorder,
                 vRecorded, aPage, aSelectedSceneId, viewerOther>>

\* handleStartRecording, the microphone being granted: startRecording
\* creates and starts the recorder, then setIsRecording(true). The button
\* is shown while there is no voice note and nothing is being recorded.
ViewerHandleStartRecording ==
  /\ ViewerMounted
  /\ ~IsSome(vVoiceNote)
  /\ ~vRecording
  /\ vStopping = None
  /\ vRecorded < MaxRecordings
  /\ vMediaRecorder' = "recording"
  /\ vRecorded' = vRecorded + 1
  /\ vRecording' = TRUE
  /\ UNCHANGED <<vCaption, vEditing, vVoiceNote, vStopping, vOverlap, aPage,
                 aSelectedSceneId, aScenes, dbScenes, dbOp, viewerOther>>

\* handleStopRecording up to its await: stopRecording() sets onstop and
\* calls mediaRecorder.stop(); the closure keeps the scene prop of the
\* render in which Stop was pressed
ViewerHandleStopRecording ==
  /\ ViewerMounted
  /\ ~IsSome(vVoiceNote)
  /\ vRecording
  /\ vMediaRecorder = "recording"
  /\ vStopping = None
  /\ vMediaRecorder' = "inactive"
  /\ vStopping' = Some([scene |-> selectedScene, mounted |-> TRUE])
  /\ vOverlap' = NoOverlap
  /\ UNCHANGED <<vCaption, vEditing, vVoiceNote, vRecording, vRecorded, aPage,
                 aSelectedSceneId, aScenes, dbScenes, dbOp, viewerOther>>

\* handleCancelRecording: cancelRecording() stops a recorder that is still
\* recording and forgets it; setIsRecording(false)
ViewerHandleCancelRecording ==
  /\ ViewerMounted
  /\ ~IsSome(vVoiceNote)
  /\ vRecording
  /\ vMediaRecorder' = IF vMediaRecorder = "recording" THEN "null" ELSE vMediaRecorder
  /\ vRecording' = FALSE
  /\ UNCHANGED <<vCaption, vEditing, vVoiceNote, vStopping, vRecorded, vOverlap,
                 aPage, aSelectedSceneId, aScenes, dbScenes, dbOp, viewerOther>>

\* the recorder's onstop and the reader's onloadend: stopRecording resolves
\* with the data URL and handleStopRecording goes on after its await with
\* the scene its closure holds (the setters of an unmounted viewer do
\* nothing; onUpdate is the App's)
ViewerRecordingConverted ==
  /\ IsSome(vStopping)
  /\ LET audioDataUrl == "data:audio" \o ToString(vRecorded)
         updatedScene == [vStopping[1].scene EXCEPT
                            !.voiceNoteDataUrl = Some(audioDataUrl)]
     IN  /\ handleUpdateScene(updatedScene)
         /\ IF vStopping[1].mounted /\ ViewerMounted
            THEN vVoiceNote' = Some(audioDataUrl) /\ vRecording' = FALSE
            ELSE UNCHANGED <<vVoiceNote, vRecording>>
         /\ vOverlap' = IF vOverlap.phase = "caption saved"
                        THEN [vOverlap EXCEPT !.phase = "both saved",
                                              !.voiceNote = Some(audioDataUrl)]
                        ELSE NoOverlap
  /\ vStopping' = None
  /\ vMediaRecorder' = "null"
  /\ UNCHANGED <<vCaption, vEditing, vRecorded, aPage, aSelectedSceneId, viewerOther>>

\* handleDeleteRecording, the confirmation accepted
ViewerHandleDeleteRecording ==
  /\ ViewerMounted
  /\ IsSome(vVoiceNote)
  /\ vVoiceNote' = None
  /\ handleUpdateScene([selectedScene EXCEPT !.voiceNoteDataUrl = None])
  /\ vOverlap' = NoOverlap
  /\ UNCHANGED <<vCaption, vEditing, vRecording, vStopping, vMediaRecorder,
                 vRecorded, aPage, aSelectedSceneId, viewerOther>>

ViewerNext ==
  \/ \E i \in 1..Len(aScenes) : AppHandleViewScene(i)
  \/ ViewerClose
  \/ ViewerEditCaption
  \/ \E t \in {<<>>, NewCaption} : ViewerSetCaption(t)
  \/ ViewerCancelCaption
  \/ ViewerHandleSaveCaption
  \/ ViewerHandleStartRecording
  \/ ViewerHandleStopRecording
  \/ ViewerHandleCancelRecording
  \/ ViewerRecordingConverted
  \/ ViewerHandleDeleteRecording

SpecViewer == ViewerInit /\ [][ViewerNext]_vars

\* ------------------------------------------------------------------------
\* Properties of the scene viewer
\* ------------------------------------------------------------------------
StoredScenes == {r.value : r \in dbScenes}

\* C29: when a caption has been saved while handleStopRecording was
\* suspended, and that call has then saved its voice note, the stored
\* scene and the scene in memory carry that caption and that voice note,
\* and their other fields are those the scene had.
C29_OverlappingSavesBothKept ==
  vOverlap.phase = "both saved" =>
    \A scene \in StoredScenes \cup {aScenes[i] : i \in 1..Len(aScenes)} :
       scene = [StoryScene(None, None) EXCEPT
                  !.caption = vOverlap.caption,
                  !.voiceNoteDataUrl = vOverlap.voiceNote]

\* ------------------------------------------------------------------------
\* Speech recognition (utils/speechRecognition.ts) under the VoiceInput
\* button (VoiceInput.tsx)
\* ------------------------------------------------------------------------
MaxSessions == 3

\* a VoiceInput is on screen, in a browser with speech recognition
SpeechInit ==
  /\ FilterIdle
  /\ PromptIdle
  /\ ScreensIdle
  /\ GatewayIdle
  /\ ClientIdle
  /\ StoreIdle
  /\ AppIdle
  /\ ViewerIdle
  /\ currentRecognition = 0
  /\ recognitions = <<>>
  /\ isListening = FALSE
  /\ voiceMounted = TRUE

speechOther ==
  <<filterVars, promptVars, propVars, dreamVars, sceneVars, gatewayVars, clientVars,
    storeVars, appVars, viewerVars>>

\* currentRecognition.stop() where there is a current session
stopCurrent(sessions) ==
  IF currentRecognition = 0 THEN sessions
  ELSE [sessions EXCEPT ![currentRecognition].stopped = TRUE]

\* isRecognizing()
isRecognizing == currentRecognition # 0

\* startSpeechRecognition(options), the class being there and start() not
\* throwing: the current session is stopped and forgotten, a new one is
\* created, started and made current
startSpeechRecognition ==
  /\ Len(recognitions) < MaxSessions
  /\ recognitions' = Append(stopCurrent(recognitions),
                            [phase |-> "starting", stopped |-> FALSE])
  /\ currentRecognition' = Len(recognitions) + 1

\* stopSpeechRecognition()
stopSpeechRecognition ==
  /\ recognitions' = stopCurrent(recognitions)
  /\ currentRecognition' = 0

\* handleToggle: the button stops when it shows "listening", else starts
VoiceHandleToggle ==
  /\ voiceMounted
  /\ IF isListening
     THEN stopSpeechRecognition /\ isListening' = FALSE
     ELSE startSpeechRecognition /\ UNCHANGED isListening
  /\ UNCHANGED <<voiceMounted, speechOther>>

\* the browser's start event of session n: recognition.onstart calls
\* options.onStart, which is setIsListening(true)
SpeechOnStart(n) ==
  /\ n \in 1..Len(recognitions)
  /\ recognitions[n].phase = "starting"
  /\ recognitions' = [recognitions EXCEPT ![n].phase = "started"]
  /\ isListening' = IF voiceMounted THEN TRUE ELSE isListening
  /\ UNCHANGED <<currentRecognition, voiceMounted, speechOther>>

\* the browser's end event of session n (after stop(), after the speech
\* of a session that is not continuous, or after an error):
\* recognition.onend forgets the current session and calls options.onEnd
SpeechOnEnd(n) ==
  /\ n \in 1..Len(recognitions)
  /\ recognitions[n].phase # "ended"
  /\ recognitions' = [recognitions EXCEPT ![n].phase = "ended"]
  /\ currentRecognition' = 0
  /\ isListening' = IF voiceMounted THEN FALSE ELSE isListening
  /\ UNCHANGED <<voiceMounted, speechOther>>

\* the effect's cleanup when the VoiceInput unmounts
VoiceUnmount ==
  /\ voiceMounted
  /\ voiceMounted' = FALSE
  /\ isListening' = FALSE
  /\ IF isRecognizing THEN stopSpeechRecognition
     ELSE UNCHANGED <<recognitions, currentRecognition>>
  /\ UNCHANGED speechOther

SpeechNext ==
  \/ VoiceHandleToggle
  \/ \E n \in 1..MaxSessions : SpeechOnStart(n)
  \/ \E n \in 1..MaxSessions : SpeechOnEnd(n)
  \/ VoiceUnmount

SpecSpeech == SpeechInit /\ [][SpeechNext]_vars

\* the session created last has not been stopped by a call and the
\* browser has not ended it
LatestSessionRunning ==
  /\ Len(recognitions) > 0
  /\ recognitions[Len(recognitions)].phase # "ended"
  /\ ~recognitions[Len(recognitions)].stopped

\* C30: isRecognizing() is true whenever the session started last is
\* still running, whatever start and stop calls and end events of this
\* and of earlier sessions came before.
C30_RecognizingWhileLatestRuns == LatestSessionRunning => isRecognizing

====
